---- MODULE Spec2Model ----
(***************************************************************************)
(* Model of the Coolify Ansible role:                                      *)
(*   - SwaggerClient.call_operation, the request building and the retry    *)
(*     loop of the generic OpenAPI client                                  *)
(*     (module_utils/swagger/swagger_client.py);                           *)
(*   - the run_module entry points of the resource wrappers and of the     *)
(*     generic passthrough (library/coolify_*.py), run against a remote    *)
(*     that answers each network call.                                     *)
(* Spec     : one direct call_operation on a client with any retry         *)
(*            configuration.                                               *)
(* SpecWrap : one wrapper invocation (optionally repeated once with the    *)
(*            same input) against a remote resource list.                  *)
(* SpecRequest : the operation lookup and the request building of one      *)
(*            call_operation, for any document, caller map and auth map.   *)
(***************************************************************************)
EXTENDS Integers, Sequences, FiniteSets, TLC

VARIABLES
    \* ---- SwaggerClient instance and one call_operation activation
    max_retries,    \* self.max_retries
    retry_delay,    \* self.retry_delay
    operation_id,   \* argument of call_operation
    raw_response,   \* argument of call_operation
    cpc,            \* position in call_operation: idle, loop, returned, raised
    attempt,        \* loop variable of "for attempt in range(self.max_retries)"
    last_error,     \* local last_error
    returned,       \* value returned / exception raised by call_operation
    made,           \* transport outcomes of the _make_request calls, in order
    slept,          \* arguments of the time.sleep calls, in order
    spec_doc,       \* self.spec, the loaded specification document
    auth_params,    \* self.auth_params
    auth_headers,   \* self.auth_headers
    call_params,    \* argument params of call_operation
    request,        \* the request call_operation built for _make_request
    \* ---- one wrapper invocation (run_module)
    wrapper,        \* which library module runs
    params,         \* module.params
    check_mode,     \* module.check_mode
    remote,         \* the remote's resource list for this wrapper's kind
    remote0,        \* the remote's resource list when the invocation started
    wpc,            \* position in run_module
    existing,       \* local existing
    result,         \* the result dict handed to exit_json / fail_json
    calls,          \* network calls issued by this invocation, in order
    env_i,          \* index of the next entry of the environments list
    current_envs,   \* local current_envs of the project wrapper
    runs            \* summaries of the completed earlier invocations

cvars == <<max_retries, retry_delay, operation_id, raw_response, cpc, attempt,
           last_error, returned, made, slept, spec_doc, auth_params, auth_headers,
           call_params, request>>
wvars == <<wrapper, params, check_mode, remote, remote0, wpc, existing, result,
           calls, env_i, current_envs, runs>>
vars == <<cvars, wvars>>

None == "None"
False == "False"

\* Python truthiness of an optional string.
Truthy(x) == x # None /\ x # ""

(***************************************************************************)
(* Bounds of the model.                                                    *)
(***************************************************************************)
MaxRetriesBound == 3    \* max_retries is drawn from 0..MaxRetriesBound
MaxDelayBound == 2      \* retry_delay is drawn from 1..MaxDelayBound
MaxRemote == 2          \* the remote lists at most MaxRemote resources at the start
MaxEnvs == 2            \* the environments parameter has at most MaxEnvs entries
MaxPaths == 2           \* a document declares at most MaxPaths paths

(***************************************************************************)
(* Program constants.                                                      *)
(***************************************************************************)
DefaultMaxRetries == 3
DefaultRetryDelay == 1

(***************************************************************************)
(* Transport outcomes of SwaggerClient._make_request: a response record    *)
(* for any HTTP status, or a SwaggerClientError for a transport failure.   *)
(***************************************************************************)
StatusCodes == {200, 404, 500}

BodyJson == "{\"uuid\": \"u1\"}"
BodyMessage == "{\"message\": \"Server Error\"}"
BodyHtml == "<html>Bad Gateway</html>"
BodyEmpty == ""
Bodies == {BodyJson, BodyMessage, BodyHtml, BodyEmpty}

ResponseHeaders == [content_type |-> "application/json"]

Responses ==
    [kind : {"response"}, status_code : StatusCodes, body : Bodies,
     headers : {ResponseHeaders}]

TransportErrors == {"Request timed out", "SSL error", "Connection error"}

Failures == [kind : {"error"}, message : TransportErrors]

Outcomes == Responses \cup Failures

\* Further bodies a facade call is answered with: an object whose message
\* has no "error" in it, one whose message is upper case, one whose message
\* is null, and a list.
BodyNotFound == "{\"message\": \"Not found\"}"
BodyUpper == "{\"message\": \"ERROR: locked\"}"
BodyNullMessage == "{\"message\": null}"
BodyList == "[]"
FacadeBodies == Bodies \cup {BodyNotFound, BodyUpper, BodyNullMessage, BodyList}

\* json.loads on the body texts above: the texts that parse, and their value
\* (a JSON list is the record [list |-> its elements], null is None).
JsonDecodable(body) == body \in FacadeBodies \ {BodyHtml, BodyEmpty}

JsonLoads(body) ==
    CASE body = BodyJson -> [uuid |-> "u1"]
      [] body = BodyMessage -> [message |-> "Server Error"]
      [] body = BodyNotFound -> [message |-> "Not found"]
      [] body = BodyUpper -> [message |-> "ERROR: locked"]
      [] body = BodyNullMessage -> [message |-> None]
      [] body = BodyList -> [list |-> <<>>]

\* The dict handed back to the caller of _make_request.
ResponseDict(o) ==
    [status_code |-> o.status_code, body |-> o.body, headers |-> o.headers]

\* Mutant: the raw_response flag is ignored.
DecodeIgnoringRaw(response, raw) ==
    IF JsonDecodable(response.body) THEN JsonLoads(response.body)
    ELSE [raw |-> response.body]

\* Mutant: the body is never decoded.
DecodeNever(response, raw) ==
    IF raw THEN response ELSE [raw |-> response.body]

\* Lines 459-466: what call_operation returns for a response.
Decode(response, raw) ==
    IF raw THEN response
    ELSE IF JsonDecodable(response.body) THEN JsonLoads(response.body)
    ELSE [raw |-> response.body]

\* The index of operations built at construction.
Operations == {"list-servers", "create-project"}
OperationIds == Operations \cup {"no-such-operation"}

RECURSIVE Pow2(_)
Pow2(n) == IF n <= 0 THEN 1 ELSE 2 * Pow2(n - 1)

\* Mutant: the delay is not doubled.
BackoffConstant(delay, a) == delay

\* Line 471: the argument of time.sleep after failing attempt number attempt.
BackoffDelay(delay, a) == delay * Pow2(a)

\* Mutant: a failed attempt is never followed by another one.
NeverRetry(a, retries) == FALSE

\* Line 470: whether a failed attempt is followed by another one.
ShouldRetry(a, retries) == a < retries - 1

\* Mutant: the range is one too long.
InRangeInclusive(a, retries) == a <= retries

\* Line 455: range(self.max_retries) still holds the index a.
InRange(a, retries) == a < retries

\* Line 468: the outcomes of _make_request caught as SwaggerClientError.
IsTransportFailure(o) == o.kind = "error"

\* The exception object a raise hands to the caller.
Raise(message) == [error |-> message]

OperationNotFound == "Operation not found"

(***************************************************************************)
(* The loaded specification document, self.spec: its paths in document     *)
(* order, each with the operations it declares by method, and its schemas  *)
(* by reference.                                                           *)
(***************************************************************************)
\* A path template is a sequence of segments, a segment a literal or a
\* placeholder {text}.
Lit(text) == [var |-> FALSE, text |-> text]
Var(text) == [var |-> TRUE, text |-> text]

JsonType == "application/json"
FormType == "application/x-www-form-urlencoded"
MultipartType == "multipart/form-data"

\* A schema: a $ref (None when there is none) and its own properties.
Schema(ref, properties) == [ref |-> ref, properties |-> properties]

FormRef == "#/components/schemas/Form"
MissingRef == "#/components/schemas/Missing"
ExternalRef == "other.json#/components/schemas/Form"

\* operation.get('requestBody'): absent, or the schema of each content type.
NoRequestBody == [present |-> FALSE, content |-> <<>>]
RequestBody(content) == [present |-> TRUE, content |-> content]

NoSchema == Schema(None, <<>>)

\* A declared parameter.
Param(name, in) == [name |-> name, in |-> in]

\* An operation object; operationId is None when the key is absent.
Operation(id, parameters, body) ==
    [operationId |-> id, parameters |-> parameters, requestBody |-> body]

PathAndQuery(name) == <<Param(name, "path"), Param(name, "query")>>

\* The path items documents are made of.
ServersItem ==
    [path |-> <<Lit("servers")>>,
     ops |-> [m \in {"get", "trace"} |->
                IF m = "get" THEN Operation("list-servers", <<>>, NoRequestBody)
                ELSE Operation("trace-servers", <<>>, NoRequestBody)]]

ProjectsItem ==
    [path |-> <<Lit("projects")>>,
     ops |-> [m \in {"get", "post"} |->
                IF m = "post"
                THEN Operation("create-project", <<>>,
                               RequestBody([t \in {JsonType} |-> NoSchema]))
                ELSE Operation(None, <<>>, NoRequestBody)]]

ProjectItem ==
    [path |-> <<Lit("projects"), Var("project-uuid")>>,
     ops |-> [m \in {"patch"} |->
                Operation("update-project", PathAndQuery("project-uuid"),
                          RequestBody([t \in {JsonType} |-> NoSchema]))]]

\* get-item is declared twice under this path, and submit-form is declared
\* here and under /forms.
ItemsItem ==
    [path |-> <<Lit("items"), Var("project_uuid")>>,
     ops |-> [m \in {"get", "put", "patch", "delete"} |->
                CASE m = "get" ->
                       Operation("get-item", PathAndQuery("project_uuid"), NoRequestBody)
                  [] m = "put" ->
                       Operation("get-item", PathAndQuery("project_uuid"),
                                 RequestBody([t \in {JsonType} |-> NoSchema]))
                  [] m = "patch" ->
                       Operation("submit-form", PathAndQuery("project_uuid"),
                                 NoRequestBody)
                  [] m = "delete" -> Operation("", <<>>, NoRequestBody)]]

FormsItem ==
    [path |-> <<Lit("forms")>>,
     ops |-> [m \in {"post", "put"} |->
                IF m = "post"
                THEN Operation("submit-form", <<>>,
                               RequestBody([t \in {FormType} |->
                                  Schema(None, <<"project-uuid", "name">>)]))
                ELSE Operation("replace-form", <<>>,
                               RequestBody([t \in {JsonType, FormType} |->
                                  IF t = FormType THEN Schema(FormRef, <<>>)
                                  ELSE NoSchema]))]]

UploadsItem ==
    [path |-> <<Lit("uploads")>>,
     ops |-> [m \in {"post", "patch", "put"} |->
                CASE m = "post" ->
                       Operation("upload", <<>>,
                                 RequestBody([t \in {MultipartType} |-> NoSchema]))
                  [] m = "patch" ->
                       Operation("patch-upload", <<>>,
                                 RequestBody([t \in {FormType} |->
                                    Schema(MissingRef, <<"name">>)]))
                  [] m = "put" ->
                       Operation("put-upload", <<>>,
                                 RequestBody([t \in {FormType} |->
                                    Schema(ExternalRef, <<"name">>)]))]]

PathItems == {ServersItem, ProjectsItem, ProjectItem, ItemsItem, FormsItem, UploadsItem}

\* components.schemas of every document
Schemas == [r \in {FormRef} |-> Schema(None, <<"project_uuid", "name">>)]

Document(paths) == [paths |-> paths, schemas |-> Schemas]

\* The document of the Coolify client in this model: the two operations the
\* passthrough is run with.
CoolifyDocument == Document(<<ServersItem, ProjectsItem>>)

(***************************************************************************)
(* _build_operation_map, lines 180-202.                                    *)
(***************************************************************************)
\* Mutant: the methods after the first two are forgotten.
IndexedMethodsShort == <<"get", "post">>

\* Line 186: the methods that are looked for, in this order.
IndexedMethods == <<"get", "post", "put", "patch", "delete", "options", "head">>

\* method.upper()
Upper(method) ==
    CASE method = "get" -> "GET"
      [] method = "post" -> "POST"
      [] method = "put" -> "PUT"
      [] method = "patch" -> "PATCH"
      [] method = "delete" -> "DELETE"
      [] method = "options" -> "OPTIONS"
      [] method = "head" -> "HEAD"
      [] OTHER -> "TRACE"

\* Lines 194-200: the entry stored for an operation.
OperationInfo(path, method, operation) ==
    [path |-> path, method |-> Upper(method), operation |-> operation,
     parameters |-> operation.parameters, request_body |-> operation.requestBody]

\* Lines 186-200 for one path item: the entries stored, in order.
RECURSIVE MethodEntries(_, _)
MethodEntries(item, k) ==
    IF k > Len(IndexedMethods) THEN <<>>
    ELSE LET method == IndexedMethods[k] IN
         (IF method \in DOMAIN item.ops /\ Truthy(item.ops[method].operationId)
          THEN <<OperationInfo(item.path, method, item.ops[method])>>
          ELSE <<>>) \o MethodEntries(item, k + 1)

\* Lines 185-200: every assignment "operations[operation_id] = ..." in order.
RECURSIVE Entries(_)
Entries(paths) ==
    IF paths = <<>> THEN <<>>
    ELSE MethodEntries(Head(paths), 1) \o Entries(Tail(paths))

\* Mutant: the first assignment for an identifier is the one that stays.
BuildOperationMapFirstWins(doc) ==
    LET e == Entries(doc.paths)
        ids == {e[i].operation.operationId : i \in 1..Len(e)}
    IN  [id \in ids |->
            e[CHOOSE i \in 1..Len(e) :
                 /\ e[i].operation.operationId = id
                 /\ \A j \in 1..(i - 1) : e[j].operation.operationId # id]]

\* The dict that results: a later assignment replaces an earlier one.
BuildOperationMap(doc) ==
    LET e == Entries(doc.paths)
        ids == {e[i].operation.operationId : i \in 1..Len(e)}
    IN  [id \in ids |->
            e[CHOOSE i \in 1..Len(e) :
                 /\ e[i].operation.operationId = id
                 /\ \A j \in (i + 1)..Len(e) : e[j].operation.operationId # id]]

\* Mutant: every identifier counts as indexed.
KnownAlways(operations, id) == TRUE

\* Line 245: "operation_id not in self._operations", negated.
Known(operations, id) == id \in DOMAIN operations

NoOperationInfo ==
    [path |-> <<>>, method |-> "GET", operation |-> Operation(None, <<>>, NoRequestBody),
     parameters |-> <<>>, request_body |-> NoRequestBody]

\* Line 251, for an identifier that is indexed.
GetOperation(operations, id) ==
    IF id \in DOMAIN operations THEN operations[id] ELSE NoOperationInfo

(***************************************************************************)
(* call_operation, lines 405-447, and _build_request_body: the request     *)
(* that is built from the operation, the caller's params and auth_params.  *)
(* A caller map is a function from its keys to values; a dict in order     *)
(* (auth_params, query_params, form_data) is a sequence of <<key, value>>. *)
(***************************************************************************)
\* self.base_url.rstrip('/')
BaseUrl == "http://coolify/api/v1"

\* Mutant: the declared name is used as it is.
UnderscoredNot(name) == name

\* param_name.replace('-', '_')
Underscored(name) == IF name = "project-uuid" THEN "project_uuid" ELSE name

\* Mutant: the declared name is tried before its underscore spelling.
CallerValueDeclaredFirst(name, q) ==
    IF name \in DOMAIN q THEN [found |-> TRUE, value |-> q[name]]
    ELSE IF Underscored(name) \in DOMAIN q
    THEN [found |-> TRUE, value |-> q[Underscored(name)]]
    ELSE [found |-> FALSE, value |-> None]

\* Lines 412-416, 425-433, 292-300: "if python_name in params ... elif
\* param_name in params": the caller's entry that is read for a declared name.
CallerValue(name, q) ==
    IF Underscored(name) \in DOMAIN q
    THEN [found |-> TRUE, value |-> q[Underscored(name)]]
    ELSE IF name \in DOMAIN q THEN [found |-> TRUE, value |-> q[name]]
    ELSE [found |-> FALSE, value |-> None]

\* str(value), as it is placed in a URL or form field
Str(value) ==
    CASE value = None -> "None"
      [] value = False -> "False"
      [] OTHER -> value

\* path.replace('{name}', text)
Replace(path, name, text) ==
    [i \in 1..Len(path) |->
        IF path[i].var /\ path[i].text = name THEN Lit(text) ELSE path[i]]

\* Lines 409-416
RECURSIVE BuildPath(_, _, _)
BuildPath(path, parameters, q) ==
    IF parameters = <<>> THEN path
    ELSE LET param == Head(parameters)
             c == CallerValue(param.name, q)
         IN  BuildPath(IF param.in = "path" /\ c.found
                       THEN Replace(path, param.name, Str(c.value)) ELSE path,
                       Tail(parameters), q)

RECURSIVE RenderPath(_)
RenderPath(path) ==
    IF path = <<>> THEN ""
    ELSE "/" \o (IF Head(path).var THEN "{" \o Head(path).text \o "}"
                 ELSE Head(path).text) \o RenderPath(Tail(path))

HasKey(pairs, key) == \E i \in 1..Len(pairs) : pairs[i][1] = key

\* d[key] = value on a dict in order
Put(pairs, key, value) ==
    IF HasKey(pairs, key)
    THEN [i \in 1..Len(pairs) |->
             IF pairs[i][1] = key THEN <<key, value>> ELSE pairs[i]]
    ELSE Append(pairs, <<key, value>>)

\* Lines 421-433; pairs starts as dict(self.auth_params)
RECURSIVE BuildQuery(_, _, _)
BuildQuery(pairs, parameters, q) ==
    IF parameters = <<>> THEN pairs
    ELSE LET param == Head(parameters)
             c == CallerValue(param.name, q)
         IN  BuildQuery(IF param.in = "query" /\ c.found /\ c.value # None
                        THEN Put(pairs, param.name, c.value) ELSE pairs,
                        Tail(parameters), q)

\* urllib.parse.urlencode of a dict in order
RECURSIVE UrlEncode(_)
UrlEncode(pairs) ==
    IF pairs = <<>> THEN ""
    ELSE Head(pairs)[1] \o "=" \o Str(Head(pairs)[2])
         \o (IF Tail(pairs) = <<>> THEN "" ELSE "&" \o UrlEncode(Tail(pairs)))

\* _resolve_ref, lines 218-230, followed by "or {}" of line 285
IsLocalRef(ref) == ref \in {FormRef, MissingRef}

ResolveRef(doc, ref) ==
    IF IsLocalRef(ref) /\ ref \in DOMAIN doc.schemas THEN doc.schemas[ref]
    ELSE NoSchema

\* Lines 287-300
RECURSIVE FormData(_, _)
FormData(properties, q) ==
    IF properties = <<>> THEN <<>>
    ELSE LET param_name == Head(properties)
             c == CallerValue(param_name, q)
         IN  (IF c.found /\ c.value # None /\ c.value # False
              THEN <<<<param_name, c.value>>>> ELSE <<>>)
             \o FormData(Tail(properties), q)

\* The order in which the caller's dict holds its keys.
KeyOrder == <<"project-uuid", "project_uuid", "name", "description">>

JsonValue(value) ==
    CASE value = None -> "null"
      [] value = False -> "false"
      [] OTHER -> "\"" \o value \o "\""

\* json.dumps(params)
RECURSIVE JsonMembers(_, _, _)
JsonMembers(q, k, first) ==
    IF k > Len(KeyOrder) THEN ""
    ELSE IF KeyOrder[k] \in DOMAIN q
    THEN (IF first THEN "" ELSE ", ")
         \o "\"" \o KeyOrder[k] \o "\": " \o JsonValue(q[KeyOrder[k]])
         \o JsonMembers(q, k + 1, FALSE)
    ELSE JsonMembers(q, k + 1, first)

JsonDumps(q) == "{" \o JsonMembers(q, 1, TRUE) \o "}"

\* Mutant: the JSON body is looked for before the form body.
BuildRequestBodyJsonFirst(doc, info, q) ==
    LET request_body == info.request_body
        content == request_body.content
    IN  IF ~request_body.present
        THEN [body |-> None, content_type |-> JsonType, form_data |-> <<>>]
        ELSE IF JsonType \in DOMAIN content
        THEN [body |-> JsonDumps(q), content_type |-> JsonType, form_data |-> <<>>]
        ELSE IF FormType \in DOMAIN content
        THEN LET schema == IF content[FormType].ref # None
                           THEN ResolveRef(doc, content[FormType].ref)
                           ELSE content[FormType]
                 form_data == FormData(schema.properties, q)
             IN  [body |-> UrlEncode(form_data), content_type |-> FormType,
                  form_data |-> form_data]
        ELSE [body |-> None, content_type |-> JsonType, form_data |-> <<>>]

\* _build_request_body, lines 273-308
BuildRequestBody(doc, info, q) ==
    LET request_body == info.request_body
        content == request_body.content
    IN  IF ~request_body.present
        THEN [body |-> None, content_type |-> JsonType, form_data |-> <<>>]
        ELSE IF FormType \in DOMAIN content
        THEN LET schema == IF content[FormType].ref # None
                           THEN ResolveRef(doc, content[FormType].ref)
                           ELSE content[FormType]
                 form_data == FormData(schema.properties, q)
             IN  [body |-> UrlEncode(form_data), content_type |-> FormType,
                  form_data |-> form_data]
        ELSE IF JsonType \in DOMAIN content
        THEN [body |-> JsonDumps(q), content_type |-> JsonType, form_data |-> <<>>]
        ELSE [body |-> None, content_type |-> JsonType, form_data |-> <<>>]

\* Lines 441-447: auth params in front of a form body
WithAuth(built, auth) ==
    IF built.content_type = FormType /\ auth # <<>>
    THEN IF built.body # None /\ built.body # ""
         THEN UrlEncode(auth) \o "&" \o built.body
         ELSE UrlEncode(auth)
    ELSE built.body

\* Lines 405-447: the request handed to _make_request
BuildRequest(doc, info, q, auth, own_headers) ==
    LET path == BuildPath(info.path, info.parameters, q)
        query_params == BuildQuery(auth, info.parameters, q)
        built == BuildRequestBody(doc, info, q)
    IN  [method |-> info.method,
         path |-> path,
         query_params |-> query_params,
         url |-> BaseUrl \o RenderPath(path)
                 \o (IF query_params # <<>> THEN "?" \o UrlEncode(query_params)
                     ELSE ""),
         headers |-> Put(own_headers, "Accept", JsonType),
         form_data |-> built.form_data,
         body |-> WithAuth(built, auth),
         content_type |-> built.content_type]

NoRequest ==
    [method |-> None, path |-> <<>>, query_params |-> <<>>, url |-> None,
     headers |-> <<>>, form_data |-> <<>>, body |-> None, content_type |-> None]

\* Mutant: the call writes into the client's own dict.
AfterCallAliased(own, working) == working

\* Lines 421 and 450: "query_params = dict(self.auth_params)" and "headers =
\* dict(self.auth_headers)" copy the client's dict, so the dict the call
\* writes into (working) is not the client's own, which stays as it was.
AfterCall(own, working) == own

(***************************************************************************)
(* call_operation, lines 402-454: look the operation up and build the      *)
(* request; the retry loop starts with last_error = None.                  *)
(***************************************************************************)
StartCall ==
    /\ cpc = "idle"
    /\ LET operations == BuildOperationMap(spec_doc) IN
       IF Known(operations, operation_id)
       THEN /\ cpc' = "loop"
            /\ returned' = returned
            /\ request' = BuildRequest(spec_doc, GetOperation(operations, operation_id),
                                       call_params, auth_params, auth_headers)
            /\ auth_params' = AfterCall(auth_params, request'.query_params)
            /\ auth_headers' = AfterCall(auth_headers, request'.headers)
       ELSE /\ cpc' = "raised"
            /\ returned' = Raise(OperationNotFound)
            /\ request' = request
            /\ UNCHANGED <<auth_params, auth_headers>>
    /\ attempt' = 0
    /\ last_error' = None
    /\ UNCHANGED <<max_retries, retry_delay, operation_id, raw_response, made, slept,
                   spec_doc, call_params>>

(***************************************************************************)
(* call_operation, lines 455-473: one iteration of the retry loop.         *)
(***************************************************************************)
AttemptStep(o) ==
    /\ cpc = "loop"
    /\ InRange(attempt, max_retries)
    /\ made' = Append(made, o)
    /\ IF ~IsTransportFailure(o)
       THEN /\ cpc' = "returned"
            /\ returned' = Decode(ResponseDict(o), raw_response)
            /\ UNCHANGED <<attempt, last_error, slept>>
       ELSE /\ last_error' = o.message
            /\ IF ShouldRetry(attempt, max_retries)
               THEN /\ slept' = Append(slept, BackoffDelay(retry_delay, attempt))
                    /\ attempt' = attempt + 1
                    /\ UNCHANGED <<cpc, returned>>
               ELSE /\ cpc' = "raised"
                    /\ returned' = Raise(o.message)
                    /\ UNCHANGED <<attempt, slept>>
    /\ UNCHANGED <<max_retries, retry_delay, operation_id, raw_response,
                   spec_doc, auth_params, auth_headers, call_params, request>>

(***************************************************************************)
(* call_operation, lines 475-476: the loop is exhausted without a return   *)
(* or a raise from inside it.                                              *)
(***************************************************************************)
LoopExitStep ==
    /\ cpc = "loop"
    /\ ~InRange(attempt, max_retries)
    /\ IF last_error # None
       THEN /\ cpc' = "raised"
            /\ returned' = Raise(last_error)
       ELSE /\ cpc' = "returned"
            /\ returned' = [none |-> TRUE]
    /\ UNCHANGED <<max_retries, retry_delay, operation_id, raw_response, attempt,
                   last_error, made, slept, spec_doc, auth_params, auth_headers,
                   call_params, request>>

\* ---- the actions of a direct call on the client
CallOperation == StartCall /\ UNCHANGED wvars

Attempt == \E o \in Outcomes : AttemptStep(o) /\ UNCHANGED wvars

LoopExit == LoopExitStep /\ UNCHANGED wvars

NoWrapper ==
    /\ wrapper = "none"
    /\ params = [state |-> None]
    /\ check_mode = FALSE
    /\ remote = [resources |-> <<>>, environments |-> <<>>]
    /\ remote0 = remote
    /\ wpc = "none"
    /\ existing = [uuid |-> None]
    /\ result = [changed |-> FALSE, failed |-> FALSE, msg |-> ""]
    /\ calls = <<>>
    /\ env_i = 0
    /\ current_envs = <<>>
    /\ runs = <<>>

IdleCall ==
    /\ cpc = "idle"
    /\ attempt = 0
    /\ last_error = None
    /\ returned = [none |-> TRUE]
    /\ made = <<>>
    /\ slept = <<>>
    /\ request = NoRequest

\* The caller map with no key.
EmptyParams == [k \in {} |-> None]

\* The client the Coolify facade builds: its document, no auth_params, the
\* bearer token as its one auth header.
CoolifyClient ==
    /\ spec_doc = CoolifyDocument
    /\ auth_params = <<>>
    /\ auth_headers = <<<<"Authorization", "Bearer token">>>>

Init ==
    /\ max_retries \in 0..MaxRetriesBound
    /\ retry_delay \in 1..MaxDelayBound
    /\ operation_id \in OperationIds
    /\ raw_response \in BOOLEAN
    /\ CoolifyClient
    /\ call_params \in {EmptyParams, [k \in {"name"} |-> "my-app"]}
    /\ IdleCall
    /\ NoWrapper

Next == CallOperation \/ Attempt \/ LoopExit

Spec == Init /\ [][Next]_vars

(***************************************************************************)
(* The lookup and the request building alone, on any client.               *)
(***************************************************************************)
\* The keys a caller map may hold and the values each may have.
ValuesOf(key) ==
    CASE key = "project-uuid" -> {None, False, "v"}
      [] key = "project_uuid" -> {None, "w"}
      [] key = "name" -> {False, "my-app"}
      [] OTHER -> {"demo"}

ParamMaps ==
    UNION { { q \in [S -> {None, False, "v", "w", "my-app", "demo"}] :
                \A k \in S : q[k] \in ValuesOf(k) } : S \in SUBSET {"project-uuid", "project_uuid", "name", "description"} }

\* auth_params: none, a token, or a token and a parameter that shares its
\* name with a declared query parameter.
AuthMaps ==
    {<<>>, <<<<"token", "t">>>>, <<<<"token", "t">>, <<"project-uuid", "k">>>>}

Documents ==
    { Document(paths) :
        paths \in { f \in UNION { [1..n -> PathItems] : n \in 0..MaxPaths } :
                      \A i, j \in DOMAIN f : i # j => f[i] # f[j] } }

\* Every identifier a path item declares, and one that none declares.
RequestOperationIds ==
    {"list-servers", "trace-servers", "create-project", "update-project", "get-item",
     "submit-form", "replace-form", "upload", "patch-upload", "put-upload", "",
     "no-such-operation"}

InitRequest ==
    /\ max_retries = DefaultMaxRetries
    /\ retry_delay = DefaultRetryDelay
    /\ raw_response = FALSE
    /\ spec_doc \in Documents
    /\ auth_params \in AuthMaps
    /\ auth_headers = <<<<"Authorization", "Bearer token">>>>
    /\ operation_id \in RequestOperationIds
    /\ call_params \in ParamMaps
    /\ IdleCall
    /\ NoWrapper

NextRequest == CallOperation

SpecRequest == InitRequest /\ [][NextRequest]_vars

(***************************************************************************)
(*                         The wrappers                                    *)
(***************************************************************************)
ResourceWrappers ==
    {"server", "project", "application", "database", "service", "private_key"}

UuidOf(i) == "u" \o ToString(i)

\* A resource as the remote lists it; fields a kind does not have are None.
NoResource ==
    [uuid |-> None, name |-> None, description |-> None, ip |-> None,
     project_uuid |-> None, environment_name |-> None]

Names == {"a", "b"}

\* The resources of one kind the remote may hold before the invocation.
Shapes(w) ==
    CASE w = "server" ->
            {[NoResource EXCEPT !.name = n, !.ip = i] : n \in Names, i \in {"i1", "i2"}}
      [] w \in {"project", "private_key"} ->
            {[NoResource EXCEPT !.name = n, !.description = d] :
                n \in Names, d \in {None, "d"}}
      [] w = "application" ->
            {[NoResource EXCEPT !.name = n, !.project_uuid = q, !.environment_name = "e1"] :
                n \in Names, q \in {"p1", "p2"}}
      [] w \in {"database", "service"} ->
            {[NoResource EXCEPT !.name = n] : n \in Names}
      [] OTHER -> {}

RemoteLists(w) ==
    UNION { { [i \in 1..n |-> [f[i] EXCEPT !.uuid = UuidOf(i)]] : f \in [1..n -> Shapes(w)] } :
            n \in 0..MaxRemote }

\* module.params, after AnsibleModule has validated them.
NoParams ==
    [state |-> "present", name |-> None, uuid |-> None, description |-> None,
     ip |-> None, type |-> None, project_uuid |-> None, server_uuid |-> None,
     environment_name |-> None, private_key |-> None, environments |-> <<>>,
     operation |-> None]

\* The uuid parameter: not given, or the uuid of the second listed resource
\* (which names no resource when the remote lists fewer than two).
UuidInputs == {None, "u2"}

ServerStates == {"present", "absent", "validated"}
VerbStates == {"started", "stopped", "restarted"}

\* Entries of the environments parameter. The project's environment e1 is on
\* the remote at the start and e2 is not, so the entries cover a deletion, a
\* creation and an entry that asks for nothing; an entry for a name that is
\* there already arises in the second invocation.
EnvSpecs ==
    {[name |-> "e1", state |-> "absent"], [name |-> "e2", state |-> "present"],
     [name |-> "e2", state |-> "absent"]}

EnvironmentInputs == UNION { [1..n -> EnvSpecs] : n \in 0..MaxEnvs }

ParamsOf(w) ==
    CASE w = "server" ->
            \* name is required; state=present requires ip and private_key_uuid
            { q \in { [NoParams EXCEPT !.state = s, !.name = "a", !.uuid = u, !.ip = i] :
                        s \in ServerStates, u \in UuidInputs, i \in {None, "i1"} } :
                q.state = "present" => q.ip # None }
      [] w = "project" ->
            \* the environments list is read under state=present only
            { q \in { [NoParams EXCEPT !.state = s, !.name = "a", !.uuid = u,
                                      !.description = d, !.environments = e] :
                        s \in {"present", "absent"}, u \in UuidInputs,
                        d \in {None, "", "d"}, e \in EnvironmentInputs } :
                q.state = "absent" => q.environments = <<>> }
      [] w = "private_key" ->
            { [NoParams EXCEPT !.state = s, !.name = "a", !.uuid = u,
                               !.description = d, !.private_key = k] :
                s \in {"present", "absent"}, u \in UuidInputs,
                d \in {None, "", "d"}, k \in {None, "PEM"} }
      [] w = "application" ->
            \* one of uuid and name is required; state=present requires name
            { q \in { [NoParams EXCEPT !.state = s, !.name = n, !.uuid = u, !.type = t,
                                      !.project_uuid = pu, !.server_uuid = su,
                                      !.environment_name = en] :
                        s \in {"present", "absent", "deployed"} \cup VerbStates,
                        n \in {None, "a"}, u \in UuidInputs, t \in {None, "public"},
                        pu \in {None, "p1"}, su \in {None, "s1"}, en \in {None, "e2"} } :
                /\ Truthy(q.name) \/ Truthy(q.uuid)
                /\ q.state = "present" => Truthy(q.name) }
      [] w \in {"database", "service"} ->
            { q \in { [NoParams EXCEPT !.state = s, !.name = n, !.uuid = u, !.type = t,
                                      !.project_uuid = pu, !.server_uuid = su] :
                        s \in {"present", "absent"} \cup VerbStates,
                        n \in {None, "a"}, u \in UuidInputs, t \in {None, "redis"},
                        pu \in {None, "p1"}, su \in {None, "s1"} } :
                Truthy(q.name) \/ Truthy(q.uuid) }
      [] w = "api" ->
            { [NoParams EXCEPT !.operation = op] : op \in OperationIds }

(***************************************************************************)
(* CoolifyClient._request of the library modules: one urlopen, no retry.   *)
(* It returns the decoded body, or raises for an HTTP error status and for *)
(* a URLError.                                                             *)
(***************************************************************************)
RequestOutcomes == {"ok", "http_error", "url_error"}

\* The text of the exception _request raises.
ErrorText(o) == IF o = "http_error" THEN "API error" ELSE "Connection error"

\* The number of urlopen calls one _request makes.
RequestAttempts == 1

Call(kind, method, o) ==
    [kind |-> kind, method |-> method, attempts |-> RequestAttempts, outcome |-> o]

\* The first element of list that Match accepts, as a for loop returns it.
FindFirst(list, Match(_)) ==
    IF \E i \in 1..Len(list) : Match(list[i])
    THEN list[CHOOSE i \in 1..Len(list) :
                 Match(list[i]) /\ \A j \in 1..(i - 1) : ~Match(list[j])]
    ELSE NoResource

\* find_server
MatchServer(r, q) ==
    \/ Truthy(q.uuid) /\ r.uuid = q.uuid
    \/ Truthy(q.name) /\ r.name = q.name
    \/ Truthy(q.ip) /\ r.ip = q.ip

\* find_project, find_database, find_service, find_private_key
MatchByUuidOrName(r, q) ==
    \/ Truthy(q.uuid) /\ r.uuid = q.uuid
    \/ Truthy(q.name) /\ r.name = q.name

\* find_application
MatchApplication(r, q) ==
    \/ Truthy(q.uuid) /\ r.uuid = q.uuid
    \/ /\ Truthy(q.name) /\ r.name = q.name
       /\ ~(Truthy(q.project_uuid) /\ r.project_uuid # q.project_uuid)
       /\ ~(Truthy(q.environment_name) /\ r.environment_name # q.environment_name)

Find(w, list, q) ==
    CASE w = "server" -> FindFirst(list, LAMBDA r : MatchServer(r, q))
      [] w = "application" -> FindFirst(list, LAMBDA r : MatchApplication(r, q))
      [] OTHER -> FindFirst(list, LAMBDA r : MatchByUuidOrName(r, q))

\* The uuid the remote gives a new resource.
FreshUuid(list) ==
    UuidOf(CHOOSE i \in 1..(Len(list) + 1) :
              /\ \A j \in 1..Len(list) : list[j].uuid # UuidOf(i)
              /\ \A k \in 1..(i - 1) : \E j \in 1..Len(list) : list[j].uuid = UuidOf(k))

\* The remote after a successful create: it stores the fields that were sent.
Created(list, data) == Append(list, [data EXCEPT !.uuid = FreshUuid(list)])

RECURSIVE Without(_, _)
Without(list, u) ==
    IF list = <<>> THEN <<>>
    ELSE IF Head(list).uuid = u THEN Without(Tail(list), u)
    ELSE <<Head(list)>> \o Without(Tail(list), u)

Patched(list, u, data) ==
    [i \in 1..Len(list) |->
        IF list[i].uuid = u
        THEN [list[i] EXCEPT !.description =
                 IF "description" \in DOMAIN data THEN data.description ELSE @]
        ELSE list[i]]

\* ---- how run_module ends
ExitJson(changed, msg) ==
    /\ wpc' = "done"
    /\ result' = [changed |-> changed, failed |-> FALSE, msg |-> msg]

\* except Exception as e: result['msg'] = str(e); module.fail_json(**result)
FailWithResult(msg) ==
    /\ wpc' = "failed"
    /\ result' = [result EXCEPT !.failed = TRUE, !.msg = msg]

\* module.fail_json(msg=...) on a failed precondition
FailJson(msg) ==
    /\ wpc' = "failed"
    /\ result' = [changed |-> FALSE, failed |-> TRUE, msg |-> msg]

\* coolify_application: "module.fail_json(msg=str(e), **result)" passes msg
\* twice, so the handler itself dies with a TypeError and the module crashes.
FailCrashed ==
    /\ wpc' = "failed"
    /\ result' = [result EXCEPT !.failed = TRUE, !.msg = "TypeError"]

\* The "except Exception as e" handler of run_module of wrapper w.
Except(w, msg) == IF w = "application" THEN FailCrashed ELSE FailWithResult(msg)

NoCall == UNCHANGED <<calls, remote>>

\* One _request for a mutating call, and what the remote does with it.
Mutate(kind, method, o, resources) ==
    /\ calls' = Append(calls, Call(kind, method, o))
    /\ remote' = IF o = "ok" THEN [remote EXCEPT !.resources = resources] ELSE remote

(***************************************************************************)
(* run_module up to "existing = find_...(client, ...)": the list call.     *)
(***************************************************************************)
LookupStep(o) ==
    /\ wpc = "start"
    /\ wrapper \in ResourceWrappers
    /\ calls' = Append(calls, Call("list", "GET", o))
    /\ IF o = "ok"
       THEN /\ existing' = Find(wrapper, remote.resources, params)
            /\ wpc' = "decide"
            /\ UNCHANGED result
       ELSE /\ existing' = existing
            /\ Except(wrapper, ErrorText(o))
    /\ UNCHANGED <<wrapper, params, check_mode, remote, remote0, env_i, current_envs, runs>>

\* The data create_server sends.
ServerData(q) == [NoResource EXCEPT !.name = q.name, !.ip = q.ip]

\* coolify_server.run_module, lines 275-325
ServerStep(o) ==
    /\ wpc = "decide"
    /\ wrapper = "server"
    /\ CASE params.state = "present" ->
              IF existing # NoResource
              THEN ExitJson(FALSE, "already exists") /\ NoCall
              ELSE IF check_mode
              THEN ExitJson(TRUE, "Would create") /\ NoCall
              ELSE /\ Mutate("create", "POST", o,
                             Created(remote.resources, ServerData(params)))
                   /\ IF o = "ok" THEN ExitJson(TRUE, "created")
                      ELSE FailWithResult(ErrorText(o))
         [] params.state = "absent" ->
              IF existing = NoResource
              THEN ExitJson(FALSE, "does not exist") /\ NoCall
              ELSE IF check_mode
              THEN ExitJson(TRUE, "Would delete") /\ NoCall
              ELSE /\ Mutate("delete", "DELETE", o,
                             Without(remote.resources, existing.uuid))
                   /\ IF o = "ok" THEN ExitJson(TRUE, "deleted")
                      ELSE FailWithResult(ErrorText(o))
         [] params.state = "validated" ->
              IF existing = NoResource
              THEN FailJson("not found") /\ NoCall
              ELSE IF check_mode
              THEN ExitJson(TRUE, "Would validate") /\ NoCall
              ELSE /\ Mutate("verb", "GET", o, remote.resources)
                   /\ IF o = "ok" THEN ExitJson(TRUE, "Validation started")
                      ELSE FailWithResult(ErrorText(o))
    /\ UNCHANGED <<wrapper, params, check_mode, remote0, existing, env_i, current_envs, runs>>

\* needs_update of coolify_project and coolify_private_key
NeedsUpdate(res, q) ==
    q.description # None /\ res.description # q.description

\* The data create_project and create_private_key send besides the key text.
NamedData(q) ==
    [NoResource EXCEPT !.name = q.name,
                       !.description = IF Truthy(q.description) THEN q.description
                                       ELSE None]

\* The data update_private_key(uuid, description=description) sends.
KeyUpdateData(description) ==
    IF Truthy(description) THEN [description |-> description] ELSE <<>>

\* The data update_project(uuid, description=description) sends.
ProjectUpdateData(description) ==
    IF description # None THEN [description |-> description] ELSE <<>>

\* Mutant: the deletion does not depend on the lookup's result.
AbsentBranchUnconditional(o) ==
    IF check_mode
    THEN ExitJson(TRUE, "Would delete") /\ NoCall
    ELSE /\ Mutate("delete", "DELETE", o, Without(remote.resources, existing.uuid))
         /\ IF o = "ok" THEN ExitJson(TRUE, "deleted")
            ELSE FailWithResult(ErrorText(o))

\* state=absent, the same in every resource wrapper
AbsentBranch(o) ==
    IF existing = NoResource
    THEN ExitJson(FALSE, "does not exist") /\ NoCall
    ELSE IF check_mode
    THEN ExitJson(TRUE, "Would delete") /\ NoCall
    ELSE /\ Mutate("delete", "DELETE", o, Without(remote.resources, existing.uuid))
         /\ IF o = "ok" THEN ExitJson(TRUE, "deleted")
            ELSE FailWithResult(ErrorText(o))

\* coolify_private_key.run_module, lines 283-333
PrivateKeyStep(o) ==
    /\ wpc = "decide"
    /\ wrapper = "private_key"
    /\ CASE params.state = "present" ->
              IF existing # NoResource
              THEN IF NeedsUpdate(existing, params)
                   THEN IF check_mode
                        THEN ExitJson(TRUE, "Would update") /\ NoCall
                        ELSE LET data == KeyUpdateData(params.description) IN
                             IF DOMAIN data # {}
                             THEN /\ Mutate("update", "PATCH", o,
                                            Patched(remote.resources, existing.uuid, data))
                                  /\ IF o = "ok" THEN ExitJson(TRUE, "updated")
                                     ELSE FailWithResult(ErrorText(o))
                             ELSE ExitJson(TRUE, "updated") /\ NoCall
                   ELSE ExitJson(FALSE, "already exists (no changes)") /\ NoCall
              ELSE IF ~Truthy(params.private_key)
              THEN FailJson("private_key or private_key_file is required") /\ NoCall
              ELSE IF check_mode
              THEN ExitJson(TRUE, "Would create") /\ NoCall
              ELSE /\ Mutate("create", "POST", o,
                             Created(remote.resources, NamedData(params)))
                   /\ IF o = "ok" THEN ExitJson(TRUE, "created")
                      ELSE FailWithResult(ErrorText(o))
         [] params.state = "absent" -> AbsentBranch(o)
    /\ UNCHANGED <<wrapper, params, check_mode, remote0, existing, env_i, current_envs, runs>>

\* Mutant: the environments are managed in check mode too.
ProjectEnvironmentsAlways(ex, changed, msg) ==
    /\ existing' = ex
    /\ IF ex # NoResource /\ params.environments # <<>> /\ Truthy(ex.uuid)
       THEN /\ wpc' = "envs"
            /\ result' = [changed |-> changed, failed |-> FALSE, msg |-> msg]
       ELSE ExitJson(changed, msg)

\* Line 369: "if existing and environments and not module.check_mode".
\* ex is existing at that line, changed and msg what result holds there.
ProjectEnvironments(ex, changed, msg) ==
    /\ existing' = ex
    /\ IF ex # NoResource /\ params.environments # <<>> /\ ~check_mode /\ Truthy(ex.uuid)
       THEN /\ wpc' = "envs"
            /\ result' = [changed |-> changed, failed |-> FALSE, msg |-> msg]
       ELSE ExitJson(changed, msg)

\* coolify_project.run_module, lines 329-371 and 411-421
ProjectStep(o) ==
    /\ wpc = "decide"
    /\ wrapper = "project"
    /\ CASE params.state = "present" ->
              IF existing # NoResource
              THEN IF NeedsUpdate(existing, params)
                   THEN IF check_mode
                        THEN ProjectEnvironments(existing, TRUE, "Would update") /\ NoCall
                        ELSE LET data == ProjectUpdateData(params.description) IN
                             IF DOMAIN data # {}
                             THEN /\ Mutate("update", "PATCH", o,
                                            Patched(remote.resources, existing.uuid, data))
                                  /\ IF o = "ok"
                                     THEN ProjectEnvironments(existing, TRUE, "updated")
                                     ELSE FailWithResult(ErrorText(o)) /\ UNCHANGED existing
                             ELSE ProjectEnvironments(existing, TRUE, "updated") /\ NoCall
                   ELSE ProjectEnvironments(existing, FALSE, "already exists") /\ NoCall
              ELSE IF check_mode
              THEN ProjectEnvironments(existing, TRUE, "Would create") /\ NoCall
              ELSE LET after == Created(remote.resources, NamedData(params)) IN
                   /\ Mutate("create", "POST", o, after)
                   /\ IF o = "ok"
                      THEN ProjectEnvironments(after[Len(after)], TRUE, "created")
                      ELSE FailWithResult(ErrorText(o)) /\ UNCHANGED existing
         [] params.state = "absent" -> AbsentBranch(o) /\ UNCHANGED existing
    /\ UNCHANGED <<wrapper, params, check_mode, remote0, env_i, current_envs, runs>>

\* coolify_project.run_module, lines 372-373: current_envs = list_environments
ListEnvironmentsStep(o) ==
    /\ wpc = "envs"
    /\ calls' = Append(calls, Call("env_list", "GET", o))
    /\ IF o = "ok"
       THEN /\ current_envs' = remote.environments
            /\ env_i' = 1
            /\ wpc' = "env_loop"
            /\ UNCHANGED result
       ELSE /\ FailWithResult(ErrorText(o))
            /\ UNCHANGED <<current_envs, env_i>>
    /\ UNCHANGED <<wrapper, params, check_mode, remote, remote0, existing, runs>>

\* find_environment(current_envs, name) is not None
InEnvironments(envs, name) == \E i \in 1..Len(envs) : envs[i] = name

RECURSIVE WithoutName(_, _)
WithoutName(envs, name) ==
    IF envs = <<>> THEN <<>>
    ELSE IF Head(envs) = name THEN WithoutName(Tail(envs), name)
    ELSE <<Head(envs)>> \o WithoutName(Tail(envs), name)

\* Mutant: the loop does not move on to the next entry after a call.
MutateEnvironmentInPlace(kind, method, o, envs) ==
    /\ calls' = Append(calls, Call(kind, method, o))
    /\ remote' = IF o = "ok" THEN [remote EXCEPT !.environments = envs] ELSE remote
    /\ IF o = "ok"
       THEN /\ result' = [result EXCEPT !.changed = TRUE]
            /\ UNCHANGED <<env_i, wpc>>
       ELSE /\ FailWithResult(ErrorText(o))
            /\ UNCHANGED env_i

\* One _request of the environment loop, and what the remote does with it.
MutateEnvironment(kind, method, o, envs) ==
    /\ calls' = Append(calls, Call(kind, method, o))
    /\ remote' = IF o = "ok" THEN [remote EXCEPT !.environments = envs] ELSE remote
    /\ IF o = "ok"
       THEN /\ result' = [result EXCEPT !.changed = TRUE]
            /\ env_i' = env_i + 1
            /\ UNCHANGED wpc
       ELSE /\ FailWithResult(ErrorText(o))
            /\ UNCHANGED env_i

\* coolify_project.run_module, lines 375-406: one entry of the environments list
EnvironmentStep(o) ==
    /\ wpc = "env_loop"
    /\ env_i <= Len(params.environments)
    /\ LET env_spec == params.environments[env_i]
           existing_env == InEnvironments(current_envs, env_spec.name)
       IN  IF env_spec.state = "present" /\ ~existing_env
           THEN MutateEnvironment("env_create", "POST", o,
                                  Append(remote.environments, env_spec.name))
           ELSE IF env_spec.state = "absent" /\ existing_env
           THEN MutateEnvironment("env_delete", "DELETE", o,
                                  WithoutName(remote.environments, env_spec.name))
           ELSE /\ env_i' = env_i + 1
                /\ UNCHANGED <<calls, remote, result, wpc>>
    /\ UNCHANGED <<wrapper, params, check_mode, remote0, existing, current_envs, runs>>

\* coolify_project.run_module, line 409: the list is fetched again
RefreshEnvironmentsStep(o) ==
    /\ wpc = "env_loop"
    /\ env_i > Len(params.environments)
    /\ calls' = Append(calls, Call("env_list", "GET", o))
    /\ IF o = "ok"
       THEN /\ wpc' = "done"
            /\ UNCHANGED result
       ELSE FailWithResult(ErrorText(o))
    /\ UNCHANGED <<wrapper, params, check_mode, remote, remote0, existing, env_i,
                   current_envs, runs>>

\* The data create_application, create_database and create_service send.
PlacedData(q) ==
    [NoResource EXCEPT !.name = q.name, !.project_uuid = q.project_uuid,
                       !.environment_name = IF q.environment_name # None
                                            THEN q.environment_name ELSE "e1"]

\* state=present of the application, database and service wrappers; missing
\* tells whether a field required for creation is not given.
PresentBranch(o, missing, data) ==
    IF existing # NoResource
    THEN ExitJson(FALSE, "already exists") /\ NoCall
    ELSE IF missing
    THEN FailJson("required when creating") /\ NoCall
    ELSE IF check_mode
    THEN ExitJson(TRUE, "Would create") /\ NoCall
    ELSE /\ Mutate("create", "POST", o, Created(remote.resources, data))
         /\ IF o = "ok" THEN ExitJson(TRUE, "created")
            ELSE Except(wrapper, ErrorText(o))

\* Mutant: the verb is sent without a look at what the lookup found.
VerbBranchUnchecked(o) ==
    IF check_mode
    THEN ExitJson(TRUE, "Would " \o params.state) /\ NoCall
    ELSE /\ Mutate("verb", "POST", o, remote.resources)
         /\ IF o = "ok" THEN ExitJson(TRUE, params.state)
            ELSE Except(wrapper, ErrorText(o))

\* state=started/stopped/restarted/deployed: one POST on the found resource
VerbBranch(o) ==
    IF existing = NoResource
    THEN FailJson("not found") /\ NoCall
    ELSE IF check_mode
    THEN ExitJson(TRUE, "Would " \o params.state) /\ NoCall
    ELSE /\ Mutate("verb", "POST", o, remote.resources)
         /\ IF o = "ok" THEN ExitJson(TRUE, params.state)
            ELSE Except(wrapper, ErrorText(o))

\* state=absent of the application wrapper, whose handler differs
AbsentApplication(o) ==
    IF existing = NoResource
    THEN ExitJson(FALSE, "does not exist") /\ NoCall
    ELSE IF check_mode
    THEN ExitJson(TRUE, "Would delete") /\ NoCall
    ELSE /\ Mutate("delete", "DELETE", o, Without(remote.resources, existing.uuid))
         /\ IF o = "ok" THEN ExitJson(TRUE, "deleted")
            ELSE Except(wrapper, ErrorText(o))

\* coolify_application.run_module, lines 393-508
ApplicationStep(o) ==
    /\ wpc = "decide"
    /\ wrapper = "application"
    /\ CASE params.state = "present" ->
              PresentBranch(o, \/ ~Truthy(params.type)
                               \/ ~Truthy(params.project_uuid)
                               \/ ~Truthy(params.server_uuid),
                            [PlacedData(params) EXCEPT !.project_uuid = params.project_uuid])
         [] params.state = "absent" -> AbsentApplication(o)
         [] OTHER -> VerbBranch(o)
    /\ UNCHANGED <<wrapper, params, check_mode, remote0, existing, env_i, current_envs, runs>>

\* What the remote keeps of a database or a service.
NameOnly(q) == [NoResource EXCEPT !.name = q.name]

\* coolify_database.run_module, lines 380-500
DatabaseStep(o) ==
    /\ wpc = "decide"
    /\ wrapper = "database"
    /\ CASE params.state = "present" ->
              PresentBranch(o, \/ ~Truthy(params.type)
                               \/ ~Truthy(params.project_uuid)
                               \/ ~Truthy(params.server_uuid),
                            NameOnly(params))
         [] params.state = "absent" -> AbsentBranch(o)
         [] OTHER -> VerbBranch(o)
    /\ UNCHANGED <<wrapper, params, check_mode, remote0, existing, env_i, current_envs, runs>>

\* coolify_service.run_module, lines 348-446
ServiceStep(o) ==
    /\ wpc = "decide"
    /\ wrapper = "service"
    /\ CASE params.state = "present" ->
              PresentBranch(o, \/ ~Truthy(params.project_uuid)
                               \/ ~Truthy(params.server_uuid)
                               \/ ~Truthy(params.name),
                            NameOnly(params))
         [] params.state = "absent" -> AbsentBranch(o)
         [] OTHER -> VerbBranch(o)
    /\ UNCHANGED <<wrapper, params, check_mode, remote0, existing, env_i, current_envs, runs>>

(***************************************************************************)
(* The generic passthrough, library/coolify_api.py.                        *)
(***************************************************************************)
\* The HTTP method the specification gives each operation.
OperationMethod(op) ==
    CASE op = "create-project" -> "POST"
      [] OTHER -> "GET"

\* The part of the identifier up to and including its first hyphen.
OperationPrefix(op) ==
    CASE op = "create-project" -> "create-"
      [] op = "list-servers" -> "list-"
      [] OTHER -> "no-"

\* coolify_api.run_module, lines 177-184
mutating_ops ==
    {"create-", "update-", "delete-", "start-", "stop-", "restart-",
     "validate-", "deploy-", "cancel-"}

\* Mutant: every operation counts as mutating.
StartsWithAnyPrefix(op) == TRUE

StartsWithMutatingPrefix(op) == OperationPrefix(op) \in mutating_ops

\* coolify_api.run_module, lines 157-173: check mode exits at once, otherwise
\* client._call(operation, params, check_response=False) starts call_operation
ApiStart ==
    /\ wpc = "start"
    /\ wrapper = "api"
    /\ IF check_mode
       THEN /\ ExitJson(FALSE, "check_mode")
            /\ UNCHANGED cvars
       ELSE /\ StartCall
            /\ wpc' = "calling"
            /\ UNCHANGED result
    /\ UNCHANGED <<wrapper, params, check_mode, remote, remote0, existing, calls, env_i,
                   current_envs, runs>>

\* How the one network call of the passthrough ended, in _request's terms.
CallOutcome ==
    IF cpc = "raised" THEN "url_error"
    ELSE IF made[Len(made)].status_code \in 200..299 THEN "ok" ELSE "http_error"

\* coolify_api.run_module, lines 173-191: _call returned or raised
ApiFinish ==
    /\ wpc = "calling"
    /\ cpc \in {"returned", "raised"}
    /\ calls' = IF made = <<>> THEN calls
                ELSE Append(calls, [kind |-> "operation",
                                    method |-> OperationMethod(operation_id),
                                    attempts |-> Len(made), outcome |-> CallOutcome])
    /\ IF cpc = "returned"
       THEN ExitJson(StartsWithMutatingPrefix(operation_id), "response")
       ELSE FailWithResult(returned.error)
    /\ UNCHANGED cvars
    /\ UNCHANGED <<wrapper, params, check_mode, remote, remote0, existing, env_i,
                   current_envs, runs>>

(***************************************************************************)
(* A second invocation with the same input on the remote the first one     *)
(* left: in normal mode after a dry run, to compare the two; and once more *)
(* after a successful state=present run that reported a change (after a    *)
(* run that changed nothing the second run would repeat the first).        *)
(***************************************************************************)
Rerun ==
    /\ wpc = "done"
    /\ runs = <<>>
    /\ check_mode \/ (params.state = "present" /\ result.changed
                      /\ wrapper \in ResourceWrappers)
    /\ runs' = <<[changed |-> result.changed, calls |-> calls,
                  check_mode |-> check_mode]>>
    /\ check_mode' = FALSE
    /\ wpc' = "start"
    /\ existing' = NoResource
    /\ result' = [changed |-> FALSE, failed |-> FALSE, msg |-> ""]
    /\ calls' = <<>>
    /\ env_i' = 0
    /\ current_envs' = <<>>
    /\ remote0' = remote
    /\ UNCHANGED <<wrapper, params, remote>>
    /\ UNCHANGED cvars

\* ---- the actions of a wrapper invocation
Lookup == \E o \in RequestOutcomes : LookupStep(o) /\ UNCHANGED cvars
ServerRun == \E o \in RequestOutcomes : ServerStep(o) /\ UNCHANGED cvars
PrivateKeyRun == \E o \in RequestOutcomes : PrivateKeyStep(o) /\ UNCHANGED cvars
ProjectRun == \E o \in RequestOutcomes : ProjectStep(o) /\ UNCHANGED cvars
ListEnvironments == \E o \in RequestOutcomes : ListEnvironmentsStep(o) /\ UNCHANGED cvars
ManageEnvironment == \E o \in RequestOutcomes : EnvironmentStep(o) /\ UNCHANGED cvars
RefreshEnvironments ==
    \E o \in RequestOutcomes : RefreshEnvironmentsStep(o) /\ UNCHANGED cvars
ApplicationRun == \E o \in RequestOutcomes : ApplicationStep(o) /\ UNCHANGED cvars
DatabaseRun == \E o \in RequestOutcomes : DatabaseStep(o) /\ UNCHANGED cvars
ServiceRun == \E o \in RequestOutcomes : ServiceStep(o) /\ UNCHANGED cvars
ApiAttempt == wpc = "calling" /\ Attempt

InitWrap ==
    /\ wrapper \in ResourceWrappers \cup {"api"}
    /\ params \in ParamsOf(wrapper)
    /\ check_mode \in BOOLEAN
    /\ remote \in [resources : RemoteLists(wrapper),
                   environments : IF wrapper = "project" THEN {<<"e1">>} ELSE {<<>>}]
    /\ remote0 = remote
    /\ wpc = "start"
    /\ existing = NoResource
    /\ result = [changed |-> FALSE, failed |-> FALSE, msg |-> ""]
    /\ calls = <<>>
    /\ env_i = 0
    /\ current_envs = <<>>
    /\ runs = <<>>
    \* CoolifyClient of module_utils builds its SwaggerClient with the defaults
    /\ max_retries = DefaultMaxRetries
    /\ retry_delay = DefaultRetryDelay
    /\ operation_id = params.operation
    /\ raw_response = FALSE
    /\ CoolifyClient
    /\ call_params = EmptyParams
    /\ IdleCall

NextWrap ==
    \/ Lookup
    \/ ServerRun
    \/ PrivateKeyRun
    \/ ProjectRun
    \/ ListEnvironments
    \/ ManageEnvironment
    \/ RefreshEnvironments
    \/ ApplicationRun
    \/ DatabaseRun
    \/ ServiceRun
    \/ ApiStart
    \/ ApiAttempt
    \/ ApiFinish
    \/ Rerun

SpecWrap == InitWrap /\ [][NextWrap]_vars

(***************************************************************************)
(* Helpers of the claims.                                                  *)
(***************************************************************************)
RECURSIVE SumSeq(_)
SumSeq(q) == IF q = <<>> THEN 0 ELSE Head(q) + SumSeq(Tail(q))

CallEnded == cpc \in {"returned", "raised"}

AllFailed == \A i \in 1..Len(made) : made[i].kind = "error"

\* The transport failed on the first n-1 attempts and answered on attempt n.
FailedThenAnswered ==
    /\ Len(made) >= 1
    /\ made[Len(made)].kind = "response"
    /\ \A i \in 1..(Len(made) - 1) : made[i].kind = "error"

(***************************************************************************)
(* C1: one call_operation on a known operation makes at most max_retries   *)
(* transport attempts, makes a further attempt only after a transport      *)
(* failure, stops at the first attempt that yields a response, and raises  *)
(* the failure of the last attempt when all max_retries attempts failed.   *)
(***************************************************************************)
C1_BoundedRetry ==
    operation_id \in Operations =>
        /\ Len(made) <= max_retries
        /\ \A i \in 2..Len(made) : made[i - 1].kind = "error"
        /\ \A i \in 1..Len(made) :
              made[i].kind = "response" => i = Len(made) /\ cpc = "returned"
        /\ (CallEnded /\ Len(made) >= 1 /\ Len(made) = max_retries /\ AllFailed)
              => /\ cpc = "raised"
                 /\ returned = Raise(made[Len(made)].message)

\* Three attempts failed with different errors and the last one was raised.
C1_Witness ==
    /\ max_retries = DefaultMaxRetries
    /\ cpc = "raised"
    /\ Len(made) = 3
    /\ AllFailed
    /\ made[1].message # made[3].message
    /\ returned = Raise(made[3].message)

(***************************************************************************)
(* C2: when the transport fails n-1 times and answers on attempt n, the    *)
(* call returns the decoded result of attempt n after exactly n attempts,  *)
(* the waits are retry_delay, 2*retry_delay, 4*retry_delay, ..., their sum *)
(* is retry_delay*(2^(n-1) - 1), and no wait follows the final attempt,    *)
(* successful or not.                                                      *)
(***************************************************************************)
C2_BackoffSchedule ==
    /\ \A i \in 1..Len(slept) : slept[i] = retry_delay * Pow2(i - 1)
    /\ (CallEnded /\ Len(made) >= 1) => Len(slept) = Len(made) - 1
    /\ (CallEnded /\ FailedThenAnswered) =>
          /\ cpc = "returned"
          /\ returned = Decode(ResponseDict(made[Len(made)]), raw_response)
          /\ attempt = Len(made) - 1
          /\ SumSeq(slept) = retry_delay * (Pow2(Len(made) - 1) - 1)

\* Defaults, two failures then an answer: waits 1 and 2, three units in all.
C2_Witness ==
    /\ max_retries = DefaultMaxRetries
    /\ retry_delay = DefaultRetryDelay
    /\ cpc = "returned"
    /\ Len(made) = 3
    /\ FailedThenAnswered
    /\ slept = <<1, 2>>
    /\ SumSeq(slept) = 3

(***************************************************************************)
(* C3: a response with any HTTP status ends the retry loop: the attempt    *)
(* that got it is the last one, no sleep follows it, nothing is raised and *)
(* the decoded body (or the response record under raw_response) is         *)
(* returned; a response on the first attempt means one attempt, no sleep.  *)
(***************************************************************************)
C3_ResponseNeverRetried ==
    \A i \in 1..Len(made) :
        made[i].kind = "response" =>
            /\ i = Len(made)
            /\ Len(slept) = i - 1
            /\ cpc = "returned"
            /\ returned = IF raw_response
                          THEN [status_code |-> made[i].status_code,
                                body |-> made[i].body,
                                headers |-> made[i].headers]
                          ELSE IF JsonDecodable(made[i].body)
                               THEN JsonLoads(made[i].body)
                               ELSE [raw |-> made[i].body]

\* A 500 response on the first attempt was returned as a raw record.
C3_Witness ==
    /\ max_retries = DefaultMaxRetries
    /\ Len(made) = 1
    /\ made[1].kind = "response"
    /\ made[1].status_code = 500
    /\ raw_response
    /\ slept = <<>>
    /\ cpc = "returned"
    /\ returned.status_code = 500

(***************************************************************************)
(* Helpers of the wrapper claims.                                          *)
(***************************************************************************)
\* A create, update, delete or verb call on the resource itself.
IsResourceMutation(c) ==
    \/ c.kind \in {"create", "update", "delete", "verb"}
    \/ c.kind = "operation" /\ c.method # "GET"

\* A create or delete call on an environment of a project.
IsEnvironmentMutation(c) == c.kind \in {"env_create", "env_delete"}

IsMutating(c) == IsResourceMutation(c) \/ IsEnvironmentMutation(c)

Mutations(cs) == SelectSeq(cs, IsMutating)

Creates(cs) == SelectSeq(cs, LAMBDA c : c.kind = "create")

\* The invocation is the normal-mode run that follows a dry run.
AfterDryRun == runs # <<>> /\ runs[1].check_mode

\* The invocation is the second of two normal-mode runs.
SecondRun == runs # <<>> /\ ~runs[1].check_mode

(***************************************************************************)
(* C4 as stated: a transport failure on a network call of any wrapper is   *)
(* retried up to the configured attempt budget before the wrapper fails.   *)
(***************************************************************************)
C4_RetriedByEveryWrapper ==
    \A i \in 1..Len(calls) :
        calls[i].outcome = "url_error" => calls[i].attempts = max_retries

(***************************************************************************)
(* C4, amended: a transport failure ends the invocation with a failure     *)
(* result; the call it hit was attempted max_retries times when the        *)
(* wrapper is the generic passthrough, and exactly once when it is one of  *)
(* the six resource wrappers, whose own _request does not retry.           *)
(***************************************************************************)
C4_RetriedByPassthroughOnly ==
    /\ \A i \in 1..Len(calls) :
          calls[i].outcome = "url_error" =>
              /\ calls[i].attempts = IF wrapper = "api" THEN max_retries ELSE 1
              /\ i = Len(calls)
              /\ wpc = "failed"
              /\ result.failed
    /\ (wrapper = "api" /\ wpc = "failed" /\ made # <<>>) =>
          /\ Len(made) = max_retries
          /\ AllFailed
          /\ calls[Len(calls)].outcome = "url_error"

\* The passthrough failed after three failed attempts of its one call.
C4_Witness ==
    /\ wrapper = "api"
    /\ wpc = "failed"
    /\ result.failed
    /\ Len(calls) = 1
    /\ calls[1].outcome = "url_error"
    /\ calls[1].attempts = DefaultMaxRetries
    /\ slept = <<1, 2>>

C6_FailureLeavesRemoteUntouched ==
    wpc = "failed" =>
        /\ remote = remote0
        /\ \A i \in 1..Len(calls) : IsMutating(calls[i]) => calls[i].outcome # "ok"

\* coolify_project created the project, then the environment list call
\* failed: the invocation reports failure and the project stays created.
C6_Witness ==
    /\ wrapper = "project"
    /\ wpc = "failed"
    /\ result.failed
    /\ result.changed
    /\ Len(calls) = 3
    /\ calls[2] = Call("create", "POST", "ok")
    /\ calls[3] = Call("env_list", "GET", "url_error")
    /\ Len(remote.resources) = Len(remote0.resources) + 1

(***************************************************************************)
(* C7: a wrapper run twice with state=present and identical input, on a    *)
(* remote that stores what a successful create sends, issues at most one   *)
(* creating call over both runs, and the second run issues no mutating     *)
(* call and reports changed=false.                                         *)
(***************************************************************************)
C7_PresentTwiceIsIdempotent ==
    (SecondRun /\ wpc = "done" /\ params.state = "present") =>
        /\ Len(Creates(runs[1].calls)) + Len(Creates(calls)) <= 1
        /\ Mutations(calls) = <<>>
        /\ ~result.changed

\* coolify_project with description "": the first run created the project
\* without a description, the second run found it and patched it.
C7_Witness ==
    /\ wrapper = "project"
    /\ params.description = ""
    /\ params.environments = <<>>
    /\ SecondRun
    /\ Len(Creates(runs[1].calls)) = 1
    /\ wpc = "done"
    /\ calls = <<Call("list", "GET", "ok"), Call("update", "PATCH", "ok")>>
    /\ result.changed

(***************************************************************************)
(* C8: in every wrapper invocation that ends successfully the reported     *)
(* changed flag is true if and only if a mutating call was issued in that  *)
(* invocation; the flag a dry run reported is true if and only if the      *)
(* normal-mode run of the same input issued a mutating call.               *)
(***************************************************************************)
C8_ChangedIffMutatingCall ==
    /\ (wpc = "done" /\ ~check_mode) =>
          (result.changed <=> Mutations(calls) # <<>>)
    /\ (wpc = "done" /\ AfterDryRun) =>
          (runs[1].changed <=> Mutations(calls) # <<>>)

\* coolify_private_key, first invocation in normal mode, found the key with
\* another description, was given description "", sent nothing after the
\* list call and reported changed=true.
C8_Witness ==
    /\ wrapper = "private_key"
    /\ runs = <<>>
    /\ ~check_mode
    /\ params.state = "present"
    /\ params.description = ""
    /\ existing # NoResource
    /\ wpc = "done"
    /\ calls = <<Call("list", "GET", "ok")>>
    /\ result.changed
    /\ remote = remote0

(***************************************************************************)
(* C9: in check mode no wrapper issues a mutating call: the only call of   *)
(* a check-mode invocation is the list call of the existence lookup, and   *)
(* the remote is left as it was, for every state value and remote state.   *)
(***************************************************************************)
C9_DryRunIssuesNoMutatingCall ==
    check_mode =>
        /\ Mutations(calls) = <<>>
        /\ \A i \in 1..Len(calls) : calls[i].kind = "list" /\ calls[i].method = "GET"
        /\ Len(calls) <= 1
        /\ remote = remote0

\* A dry run of coolify_project with environments to manage, on a remote
\* without the project, reported changed=true after its list call alone.
C9_Witness ==
    /\ check_mode
    /\ wrapper = "project"
    /\ params.state = "present"
    /\ params.environments # <<>>
    /\ existing = NoResource
    /\ wpc = "done"
    /\ result.changed
    /\ calls = <<Call("list", "GET", "ok")>>

(***************************************************************************)
(* C10: the changed flag a wrapper reports in check mode equals the flag   *)
(* the same invocation reports in normal mode when all its calls succeed.  *)
(***************************************************************************)
C10_DryRunReportsSameChanged ==
    (AfterDryRun /\ wpc = "done") => result.changed = runs[1].changed

\* coolify_project found the project up to date: the dry run reported
\* changed=false, the normal run created an environment and reported true.
C10_Witness ==
    /\ wrapper = "project"
    /\ AfterDryRun
    /\ ~runs[1].changed
    /\ runs[1].calls = <<Call("list", "GET", "ok")>>
    /\ wpc = "done"
    /\ result.changed
    /\ \E i \in 1..Len(calls) : calls[i] = Call("env_create", "POST", "ok")
    /\ Len(SelectSeq(calls, IsResourceMutation)) = 0

(***************************************************************************)
(* C11: a resource wrapper invoked with state=absent whose lookup finds no *)
(* matching resource ends successfully with changed=false, has issued the  *)
(* list call of the lookup and no other call, and leaves the remote as it  *)
(* was, in check mode and in normal mode alike.                            *)
(***************************************************************************)
C11_AbsentOfMissingIsNoOp ==
    (/\ wrapper \in ResourceWrappers
     /\ params.state = "absent"
     /\ wpc \notin {"start", "decide"}
     /\ calls # <<>>
     /\ calls[1].outcome = "ok"
     /\ existing = NoResource) =>
        /\ wpc = "done"
        /\ ~result.failed
        /\ ~result.changed
        /\ calls = <<Call("list", "GET", "ok")>>
        /\ remote = remote0

\* coolify_application, state=absent, normal mode: the remote lists two
\* applications, the lookup matched neither, nothing was deleted.
C11_Witness ==
    /\ wrapper = "application"
    /\ params.state = "absent"
    /\ ~check_mode
    /\ Len(remote0.resources) = 2
    /\ existing = NoResource
    /\ wpc = "done"
    /\ ~result.changed
    /\ calls = <<Call("list", "GET", "ok")>>
    /\ remote = remote0

(***************************************************************************)
(* C12: no error is swallowed: every call of a wrapper invocation that got *)
(* a non-2xx response or whose transport attempts were exhausted leads to  *)
(* a failure result that carries the error text, never to a success.      *)
(***************************************************************************)
C12_NoErrorSwallowed ==
    \A i \in 1..Len(calls) :
        calls[i].outcome # "ok" =>
            /\ wpc = "failed"
            /\ result.failed
            /\ result.msg \in {ErrorText(calls[i].outcome)} \cup TransportErrors

\* coolify_api, list-servers: the remote answered 500 on the first attempt
\* and the invocation ended as a success with changed=false.
C12_Witness ==
    /\ wrapper = "api"
    /\ operation_id = "list-servers"
    /\ Len(made) = 1
    /\ made[1].kind = "response"
    /\ made[1].status_code = 500
    /\ calls = <<[kind |-> "operation", method |-> "GET", attempts |-> 1,
                  outcome |-> "http_error"]>>
    /\ wpc = "done"
    /\ ~result.failed
    /\ ~result.changed

(***************************************************************************)
(* C13: for an operation identifier that is not in the index,              *)
(* call_operation raises the operation-not-found error before any          *)
(* transport attempt: no request is built, nothing is sent and no sleep is *)
(* made, whatever the params and the retry configuration.                  *)
(***************************************************************************)
C13_UnknownOperationMakesNoCall ==
    operation_id \notin DOMAIN BuildOperationMap(spec_doc) =>
        /\ made = <<>>
        /\ slept = <<>>
        /\ request = NoRequest
        /\ cpc \in {"idle", "raised"}
        /\ cpc = "raised" => returned = Raise(OperationNotFound)

\* An unknown identifier, called with a parameter on a client with three
\* attempts, was refused without an attempt.
C13_Witness ==
    /\ operation_id = "no-such-operation"
    /\ max_retries = 3
    /\ call_params # EmptyParams
    /\ cpc = "raised"
    /\ returned = Raise(OperationNotFound)
    /\ made = <<>>
    /\ slept = <<>>

(***************************************************************************)
(* Helpers of the request claims.                                          *)
(***************************************************************************)
\* The operations a document declares: path, method and operation object.
Declared(doc) ==
    { [path |-> doc.paths[i].path, method |-> m, operation |-> doc.paths[i].ops[m]] :
         <<i, m>> \in { <<j, n>> \in (1..Len(doc.paths)) \X
                           {"get", "post", "put", "patch", "delete", "options",
                            "head", "trace"} :
                        n \in DOMAIN doc.paths[j].ops } }

\* The operation identifiers written in the document.
DeclaredIds(doc) ==
    { d.operation.operationId : d \in Declared(doc) } \ {None}

SevenMethods == {"get", "post", "put", "patch", "delete", "options", "head"}

\* The call was looked up and, if found, its request was built.
Resolved == cpc # "idle"

(***************************************************************************)
(* C14 as stated: every operation identifier declared anywhere in the      *)
(* loaded document resolves with an empty parameter map to a request; it   *)
(* never fails with operation-not-found.                                   *)
(***************************************************************************)
C14_EveryDeclaredOperationResolves ==
    (/\ Resolved
     /\ operation_id \in DeclaredIds(spec_doc)
     /\ call_params = EmptyParams) =>
        /\ cpc = "loop"
        /\ request # NoRequest

(***************************************************************************)
(* C14, amended: every non-empty operation identifier declared under a     *)
(* path on one of the methods get, post, put, patch, delete, options, head *)
(* resolves, with an empty parameter map as with any other, to a request   *)
(* with the method and path of a declaration of that identifier (with an   *)
(* empty map: the path template as declared and the auth parameters as     *)
(* the query); an identifier declared only under another method (trace)    *)
(* or as the empty string is not indexed and fails with                    *)
(* operation-not-found.                                                    *)
(***************************************************************************)
C14_EveryIndexedOperationResolves ==
    LET indexed == { d \in Declared(spec_doc) :
                       /\ d.method \in SevenMethods
                       /\ d.operation.operationId \notin {None, ""} }
        mine == { d \in indexed : d.operation.operationId = operation_id }
    IN  Resolved =>
          /\ mine # {} =>
                /\ cpc = "loop"
                /\ \E d \in mine :
                      /\ request.method = Upper(d.method)
                      /\ Len(request.path) = Len(d.path)
                      /\ call_params = EmptyParams =>
                            /\ request.path = d.path
                            /\ request.query_params = auth_params
          /\ mine = {} =>
                /\ cpc = "raised"
                /\ returned = Raise(OperationNotFound)

\* update-project, declared under patch with a path placeholder, resolved
\* with an empty map: the placeholder stays in the URL.
C14_Witness ==
    /\ operation_id = "update-project"
    /\ call_params = EmptyParams
    /\ auth_params = <<>>
    /\ cpc = "loop"
    /\ request.method = "PATCH"
    /\ request.url = "http://coolify/api/v1/projects/{project-uuid}"
    /\ request.body = "{}"

\* The index entry of the operation that is called.
CalledInfo == GetOperation(BuildOperationMap(spec_doc), operation_id)

Range(seq) == { seq[i] : i \in 1..Len(seq) }

\* The properties of the dereferenced form schema of an operation.
FormProperties(doc, info) ==
    IF info.request_body.present /\ FormType \in DOMAIN info.request_body.content
    THEN LET schema == info.request_body.content[FormType]
         IN  IF schema.ref # None THEN ResolveRef(doc, schema.ref).properties
             ELSE schema.properties
    ELSE <<>>

DeclaredIn(name, in) == Param(name, in) \in Range(CalledInfo.parameters)

DeclaredInForm(name) == name \in Range(FormProperties(spec_doc, CalledInfo))

\* Every placeholder {name} of the path template holds text in the request.
PathHolds(name, text) ==
    \A i \in 1..Len(CalledInfo.path) :
        CalledInfo.path[i] = Var(name) => request.path[i] = Lit(text)

\* Every placeholder {name} of the path template is still there.
PathKeeps(name) ==
    \A i \in 1..Len(CalledInfo.path) :
        CalledInfo.path[i] = Var(name) => request.path[i] = Var(name)

\* The caller map holds key with a value that is neither None nor False and
\* does not hold the key other.
OnlyUnder(key, other) ==
    /\ key \in DOMAIN call_params
    /\ call_params[key] \notin {None, False}
    /\ other \notin DOMAIN call_params

\* The caller's value under key is in the request wherever name is declared.
PlacedEverywhere(name, key) ==
    /\ DeclaredIn(name, "path") => PathHolds(name, call_params[key])
    /\ DeclaredIn(name, "query") =>
          <<name, call_params[key]>> \in Range(request.query_params)
    /\ DeclaredInForm(name) =>
          <<name, call_params[key]>> \in Range(request.form_data)

\* The request holds no caller value for name, wherever name is declared.
PlacedNowhere(name) ==
    /\ DeclaredIn(name, "path") => PathKeeps(name)
    /\ DeclaredIn(name, "query") =>
          \A i \in 1..Len(request.query_params) :
              request.query_params[i][1] = name =>
                  request.query_params[i] \in Range(auth_params)
    /\ DeclaredInForm(name) => ~HasKey(request.form_data, name)

HoldsBoth == {"project-uuid", "project_uuid"} \subseteq DOMAIN call_params

(***************************************************************************)
(* C16 as stated: for a declared parameter the caller's key under the      *)
(* declared name is tried first and the bridged key only if that key is    *)
(* absent: when the caller holds both project-uuid and project_uuid with   *)
(* different values for a declared project-uuid, the value under           *)
(* project-uuid is the one placed in the request.                          *)
(***************************************************************************)
C16_DeclaredNameFirst ==
    (/\ cpc = "loop"
     /\ HoldsBoth
     /\ call_params["project-uuid"] \notin {None, False}
     /\ call_params["project_uuid"] \notin {None, False}) =>
        PlacedEverywhere("project-uuid", "project-uuid")

(***************************************************************************)
(* C16, amended: for a declared parameter the caller's key under the       *)
(* underscore spelling of the declared name is tried first and the key     *)
(* under the declared name is used only if the underscore key is absent:   *)
(* when the caller holds both project-uuid and project_uuid for a declared *)
(* project-uuid, the entry under project_uuid is the one that is read (its *)
(* value is placed, or the parameter is left out of the query when it is   *)
(* None and out of the form body when it is None or False).                *)
(***************************************************************************)
C16_UnderscoreSpellingFirst ==
    cpc = "loop" =>
        /\ "project_uuid" \in DOMAIN call_params =>
              LET value == call_params["project_uuid"] IN
              /\ DeclaredIn("project-uuid", "path") =>
                    PathHolds("project-uuid", Str(value))
              /\ DeclaredIn("project-uuid", "query") =>
                    IF value # None
                    THEN <<"project-uuid", value>> \in Range(request.query_params)
                    ELSE \A i \in 1..Len(request.query_params) :
                             request.query_params[i][1] = "project-uuid" =>
                                 request.query_params[i] \in Range(auth_params)
              /\ DeclaredInForm("project-uuid") =>
                    IF value \notin {None, False}
                    THEN <<"project-uuid", value>> \in Range(request.form_data)
                    ELSE ~HasKey(request.form_data, "project-uuid")
        /\ OnlyUnder("project-uuid", "project_uuid") =>
              PlacedEverywhere("project-uuid", "project-uuid")

\* update-project called with project-uuid = v and project_uuid = w: w is in
\* the path and in the query.
C16_Witness ==
    /\ operation_id = "update-project"
    /\ DOMAIN call_params = {"project-uuid", "project_uuid"}
    /\ call_params["project-uuid"] = "v"
    /\ call_params["project_uuid"] = "w"
    /\ auth_params = <<>>
    /\ cpc = "loop"
    /\ request.url = "http://coolify/api/v1/projects/w?project-uuid=w"

\* The caller map without one key.
WithoutKey(q, key) == [k \in DOMAIN q \ {key} |-> q[k]]

\* The request call_operation builds for the called operation from another
\* caller map.
RequestFor(q) == BuildRequest(spec_doc, CalledInfo, q, auth_params, auth_headers)

\* key is a caller key under which the declared parameter name is read.
ReadUnder(key, name) == key \in {name, Underscored(name)}

NamesPathOrQuery(key) ==
    \E name \in {"project-uuid", "project_uuid"} :
        /\ ReadUnder(key, name)
        /\ DeclaredIn(name, "path") \/ DeclaredIn(name, "query")

NamesFormField(key) ==
    \E name \in Range(FormProperties(spec_doc, CalledInfo)) : ReadUnder(key, name)

(***************************************************************************)
(* C17: a declared path, query or form-body parameter whose caller value   *)
(* is None (or False, for form-body fields only) is treated as absent: the *)
(* URL path, the query string and the form body are the ones built from    *)
(* the caller map without that key.                                        *)
(***************************************************************************)
C17_NoneTreatedAsAbsent ==
    cpc = "loop" =>
        \A key \in DOMAIN call_params :
            LET absent == RequestFor(WithoutKey(call_params, key)) IN
            /\ (call_params[key] = None
                    /\ (NamesPathOrQuery(key) \/ NamesFormField(key))) =>
                  /\ request.url = absent.url
                  /\ request.form_data = absent.form_data
            /\ (call_params[key] = False /\ NamesFormField(key)) =>
                  request.form_data = absent.form_data

\* update-project called with project_uuid = None: "None" is the path
\* segment, where the call without the key keeps the placeholder.
C17_Witness ==
    /\ operation_id = "update-project"
    /\ DOMAIN call_params = {"project_uuid"}
    /\ call_params["project_uuid"] = None
    /\ auth_params = <<>>
    /\ cpc = "loop"
    /\ request.url = "http://coolify/api/v1/projects/None"
    /\ RequestFor(EmptyParams).url = "http://coolify/api/v1/projects/{project-uuid}"

\* The same claim without the path location and without a second spelling
\* in the caller map: what is left of C17 apart from its two failures.
C17_QueryAndFormOnly ==
    cpc = "loop" =>
        \A key \in DOMAIN call_params :
            LET absent == RequestFor(WithoutKey(call_params, key)) IN
            (/\ call_params[key] \in {None, False}
             /\ ~HoldsBoth
             /\ NamesFormField(key) \/ NamesPathOrQuery(key)) =>
                  /\ call_params[key] = None =>
                        request.query_params = absent.query_params
                  /\ request.form_data = absent.form_data

\* The encodings the called operation declares for its request body.
Declares(type) ==
    /\ CalledInfo.request_body.present
    /\ type \in DOMAIN CalledInfo.request_body.content

MyApp == [k \in {"name", "description"} |->
             IF k = "name" THEN "my-app" ELSE "demo"]

\* create-project with {name: my-app, description: demo} by the client the
\* facade constructs: the two fields as JSON, sent to <base>/projects.
CreateProjectScenario ==
    (operation_id = "create-project" /\ call_params = MyApp /\ auth_params = <<>>) =>
        /\ request.url = "http://coolify/api/v1/projects"
        /\ request.body = "{\"name\": \"my-app\", \"description\": \"demo\"}"

\* No body is sent when neither JSON nor form encoding is declared.
NoEncodingNoBody ==
    (~Declares(JsonType) /\ ~Declares(FormType)) => request.body = None

(***************************************************************************)
(* C18 as stated: when the operation declares a JSON request body, the     *)
(* body sent is the JSON encoding of exactly the entire caller map; the    *)
(* create-project scenario; no body when neither encoding is declared.     *)
(***************************************************************************)
C18_JsonBodyIsWholeMap ==
    cpc = "loop" =>
        /\ Declares(JsonType) =>
              /\ request.content_type = JsonType
              /\ request.body = JsonDumps(call_params)
        /\ CreateProjectScenario
        /\ NoEncodingNoBody

(***************************************************************************)
(* C18, amended: when the operation declares a JSON request body and no    *)
(* form-encoded one, the body sent is the JSON encoding of exactly the     *)
(* entire caller map, unfiltered; when it declares a form-encoded body     *)
(* beside the JSON one, the form encoding is the one sent; the             *)
(* create-project scenario; no body when neither encoding is declared.     *)
(***************************************************************************)
C18_JsonBodyUnlessForm ==
    cpc = "loop" =>
        /\ (Declares(JsonType) /\ ~Declares(FormType)) =>
              /\ request.content_type = JsonType
              /\ request.body = JsonDumps(call_params)
        /\ (Declares(JsonType) /\ Declares(FormType)) =>
              /\ request.content_type = FormType
              /\ request.body =
                     WithAuth([body |-> UrlEncode(request.form_data),
                               content_type |-> FormType], auth_params)
        /\ CreateProjectScenario
        /\ NoEncodingNoBody

\* The create-project scenario has been built.
C18_Witness ==
    /\ cpc = "loop"
    /\ operation_id = "create-project"
    /\ call_params = MyApp
    /\ auth_params = <<>>
    /\ Declares(JsonType)
    /\ request.method = "POST"
    /\ request.url = "http://coolify/api/v1/projects"
    /\ request.body = "{\"name\": \"my-app\", \"description\": \"demo\"}"

\* The caller holds a value other than None and False for a schema property,
\* under the property's name or under its underscore spelling.
Supplied(name) ==
    \E key \in {name, Underscored(name)} \cap DOMAIN call_params :
        call_params[key] \notin {None, False}

FieldNames == { request.form_data[i][1] : i \in 1..Len(request.form_data) }

UnresolvableRef ==
    /\ Declares(FormType)
    /\ CalledInfo.request_body.content[FormType].ref \in {MissingRef, ExternalRef}

(***************************************************************************)
(* C19: when the operation declares a form-encoded request body, the       *)
(* emitted fields are exactly the properties of the dereferenced body      *)
(* schema for which the caller supplied a value other than None and False; *)
(* caller keys that are not schema properties never appear in the body,    *)
(* and an unresolvable schema reference yields an empty field set.         *)
(***************************************************************************)
C19_FormFieldsAreSuppliedProperties ==
    (cpc = "loop" /\ Declares(FormType)) =>
        /\ FieldNames =
              { name \in Range(FormProperties(spec_doc, CalledInfo)) : Supplied(name) }
        /\ UnresolvableRef => request.form_data = <<>>

\* submit-form called with project_uuid = None and project-uuid = v: the
\* schema property project-uuid, for which the caller holds v, is not emitted.
C19_Witness ==
    /\ cpc = "loop"
    /\ operation_id = "submit-form"
    /\ DOMAIN call_params = {"project-uuid", "project_uuid", "name"}
    /\ call_params["project_uuid"] = None
    /\ call_params["project-uuid"] = "v"
    /\ call_params["name"] = "my-app"
    /\ auth_params = <<>>
    /\ request.content_type = FormType
    /\ request.body = "name=my-app"

\* What is left of C19 when no None or False sits under the underscore
\* spelling of a property whose own key holds a value: the fields are the
\* supplied schema properties, in schema order, with the caller's values;
\* the body is their encoding behind the auth parameters.
C19_FieldsFromSchemaOnly ==
    (cpc = "loop" /\ Declares(FormType)) =>
        /\ FieldNames \subseteq Range(FormProperties(spec_doc, CalledInfo))
        /\ \A i \in 1..Len(request.form_data) :
              /\ request.form_data[i][2] \notin {None, False}
              /\ \E key \in DOMAIN call_params :
                    /\ ReadUnder(key, request.form_data[i][1])
                    /\ call_params[key] = request.form_data[i][2]
        /\ (~HoldsBoth \/ call_params["project_uuid"] \notin {None, False}) =>
              FieldNames =
                { name \in Range(FormProperties(spec_doc, CalledInfo)) : Supplied(name) }
        /\ UnresolvableRef => request.form_data = <<>>
        /\ request.body =
              WithAuth([body |-> UrlEncode(request.form_data),
                        content_type |-> FormType], auth_params)

\* The form body starts with the encoded auth parameters.
AuthLeadsFormBody ==
    (request.content_type = FormType /\ auth_params # <<>>) =>
        request.body = IF request.form_data = <<>> THEN UrlEncode(auth_params)
                       ELSE UrlEncode(auth_params) \o "&" \o UrlEncode(request.form_data)

(***************************************************************************)
(* C20: the client's auth parameters are always in the query string, with  *)
(* their configured values and ahead of every parameter-derived entry,     *)
(* and are prepended to a form-encoded body ahead of the parameter-derived *)
(* fields, for every caller map, one that supplies a declared query        *)
(* parameter named like an auth parameter included.                        *)
(***************************************************************************)
C20_AuthParamsAlwaysFirst ==
    cpc = "loop" =>
        /\ Len(request.query_params) >= Len(auth_params)
        /\ SubSeq(request.query_params, 1, Len(auth_params)) = auth_params
        /\ AuthLeadsFormBody

\* update-project called with project_uuid = w by a client whose auth
\* parameters are token = t and project-uuid = k: the query carries w.
C20_Witness ==
    /\ cpc = "loop"
    /\ operation_id = "update-project"
    /\ auth_params = <<<<"token", "t">>, <<"project-uuid", "k">>>>
    /\ DOMAIN call_params = {"project_uuid"}
    /\ call_params["project_uuid"] = "w"
    /\ request.url = "http://coolify/api/v1/projects/w?token=t&project-uuid=w"

\* What is left of C20: the auth parameters' names lead the query in their
\* order, each with its configured value unless the caller supplied a
\* declared query parameter of that name, and they lead a form body.
C20_AuthNamesFirst ==
    cpc = "loop" =>
        /\ Len(request.query_params) >= Len(auth_params)
        /\ \A i \in 1..Len(auth_params) :
              /\ request.query_params[i][1] = auth_params[i][1]
              /\ request.query_params[i][2] # auth_params[i][2] =>
                    /\ DeclaredIn(auth_params[i][1], "query")
                    /\ \E key \in DOMAIN call_params :
                          /\ ReadUnder(key, auth_params[i][1])
                          /\ call_params[key] = request.query_params[i][2]
        /\ AuthLeadsFormBody

IsDict(value) == DOMAIN value \cap {"none", "list"} = {}

\* str.lower() on the message texts of the bodies
Lower(text) ==
    CASE text = "Server Error" -> "server error"
      [] text = "Not found" -> "not found"
      [] text = "ERROR: locked" -> "error: locked"

\* 'error' in text, for the lowered texts
ContainsError(text) == text \in {"server error", "error: locked"}

FacadeReturn(value) == [outcome |-> "returned", value |-> value]

\* raise CoolifyError(message, api_response)
CoolifyError(message, api_response) ==
    [outcome |-> "raised", error |-> "CoolifyError", message |-> message,
     api_response |-> api_response]

\* None has no attribute lower
AttributeError ==
    [outcome |-> "raised", error |-> "AttributeError", message |-> None,
     api_response |-> None]

\* Mutant: the message is searched as it is, not lowered.
CheckResponseCaseSensitive(response, operation_name) ==
    IF IsDict(response) /\ "message" \in DOMAIN response
    THEN IF response.message = None THEN AttributeError
         ELSE IF ContainsError(response.message)
         THEN CoolifyError(operation_name \o " failed: " \o response.message, response)
         ELSE FacadeReturn(response)
    ELSE FacadeReturn(response)

\* _check_response, lines 94-99
CheckResponse(response, operation_name) ==
    IF IsDict(response) /\ "message" \in DOMAIN response
    THEN IF response.message = None THEN AttributeError
         ELSE IF ContainsError(Lower(response.message))
         THEN CoolifyError(operation_name \o " failed: " \o response.message, response)
         ELSE FacadeReturn(response)
    ELSE FacadeReturn(response)

\* A timeout after the request reached the server, which applied it: the
\* client sees the same SwaggerClientError as for any other timeout.
LostResponses == [kind : {"error"}, message : {"Request timed out"}, applied : {TRUE}]

\* _call, lines 103-104: call_operation(operation_id, params) starts
FacadeStart ==
    /\ wrapper = "facade"
    /\ wpc = "start"
    /\ StartCall
    /\ wpc' = "calling"
    /\ UNCHANGED <<wrapper, params, check_mode, remote, remote0, existing, result,
                   calls, env_i, current_envs, runs>>

FacadeAttempt ==
    /\ wrapper = "facade"
    /\ wpc = "calling"
    /\ \E o \in [kind : {"response"}, status_code : StatusCodes, body : FacadeBodies,
                  headers : {ResponseHeaders}] \cup Failures \cup LostResponses :
          AttemptStep(o)
    /\ UNCHANGED wvars

FacadeLoopExit == wrapper = "facade" /\ wpc = "calling" /\ LoopExit

\* _call, lines 105-109: call_operation returned or raised
FacadeFinish ==
    /\ wrapper = "facade"
    /\ wpc = "calling"
    /\ cpc \in {"returned", "raised"}
    /\ result' = IF cpc = "raised" THEN CoolifyError(returned.error, None)
                 ELSE IF params.check_response
                 THEN CheckResponse(returned, operation_id)
                 ELSE FacadeReturn(returned)
    /\ wpc' = "done"
    /\ UNCHANGED cvars
    /\ UNCHANGED <<wrapper, params, check_mode, remote, remote0, existing, calls,
                   env_i, current_envs, runs>>

InitFacade ==
    /\ wrapper = "facade"
    /\ params \in [check_response : BOOLEAN]
    /\ check_mode = FALSE
    /\ remote = [resources |-> <<>>, environments |-> <<>>]
    /\ remote0 = remote
    /\ wpc = "start"
    /\ existing = [uuid |-> None]
    /\ result = [outcome |-> None]
    /\ calls = <<>>
    /\ env_i = 0
    /\ current_envs = <<>>
    /\ runs = <<>>
    /\ max_retries \in 0..MaxRetriesBound
    /\ retry_delay = DefaultRetryDelay
    /\ operation_id \in OperationIds
    /\ raw_response = FALSE
    /\ CoolifyClient
    /\ call_params = EmptyParams
    /\ IdleCall

NextFacade == FacadeStart \/ FacadeAttempt \/ FacadeLoopExit \/ FacadeFinish

SpecFacade == InitFacade /\ [][NextFacade]_vars

\* The facade call with the post-call check ended on a decoded body.
CheckedBody ==
    /\ wpc = "done"
    /\ params.check_response
    /\ cpc = "returned"
    /\ made # <<>>

\* The decoded body is an object whose message field is a text that holds
\* "error" in some letter case.
MessageHoldsError ==
    /\ DOMAIN returned = {"message"}
    /\ returned.message \in {"Server Error", "ERROR: locked"}

(***************************************************************************)
(* C22: a facade call made with the post-call check raises the domain      *)
(* error, carrying the message and the decoded body, exactly when the      *)
(* decoded body is an object with a message field whose lowercased text    *)
(* contains "error"; in every other case it returns the decoded body       *)
(* unchanged; a resolver error is always re-raised as a domain error.      *)
(***************************************************************************)
C22_CheckRaisesExactlyOnErrorMessage ==
    /\ CheckedBody =>
          IF MessageHoldsError
          THEN /\ result.outcome = "raised"
               /\ result.error = "CoolifyError"
               /\ result.message = operation_id \o " failed: " \o returned.message
               /\ result.api_response = returned
          ELSE result = [outcome |-> "returned", value |-> returned]
    /\ (wpc = "done" /\ cpc = "raised") =>
          /\ result.outcome = "raised"
          /\ result.error = "CoolifyError"
          /\ result.message = returned.error

\* list-servers answered {"message": null}: the check ends on an
\* AttributeError, neither the domain error nor the body.
C22_Witness ==
    /\ CheckedBody
    /\ operation_id = "list-servers"
    /\ made[Len(made)].body = BodyNullMessage
    /\ returned = [message |-> None]
    /\ result.outcome = "raised"
    /\ result.error = "AttributeError"

\* What is left of C22 when the message field, if there is one, is a text.
C22_HoldsForTextMessages ==
    /\ (CheckedBody /\ returned # [message |-> None]) =>
          IF MessageHoldsError
          THEN /\ result.outcome = "raised"
               /\ result.error = "CoolifyError"
               /\ result.message = operation_id \o " failed: " \o returned.message
               /\ result.api_response = returned
          ELSE result = [outcome |-> "returned", value |-> returned]
    /\ (wpc = "done" /\ cpc = "raised") =>
          /\ result.outcome = "raised"
          /\ result.error = "CoolifyError"
          /\ result.message = returned.error
    /\ (wpc = "done" /\ ~params.check_response /\ cpc = "returned") =>
          result = [outcome |-> "returned", value |-> returned]

GetOperationCall ==
    /\ cpc = "idle"
    /\ LET operations == BuildOperationMap(spec_doc) IN
       returned' = IF Known(operations, operation_id)
                   THEN GetOperation(operations, operation_id)
                   ELSE Raise(OperationNotFound)
    /\ UNCHANGED <<max_retries, retry_delay, operation_id, raw_response, cpc, attempt,
                   last_error, made, slept, spec_doc, auth_params, auth_headers,
                   call_params, request>>
    /\ UNCHANGED wvars

\* list_operations without a tag, lines 263-264: the keys of the index
ListOperationsCall ==
    /\ cpc = "idle"
    /\ returned' = [list |-> DOMAIN BuildOperationMap(spec_doc)]
    /\ UNCHANGED <<max_retries, retry_delay, operation_id, raw_response, cpc, attempt,
                   last_error, made, slept, spec_doc, auth_params, auth_headers,
                   call_params, request>>
    /\ UNCHANGED wvars

\* get_operation_schema, lines 488-518
GetOperationSchemaCall ==
    /\ cpc = "idle"
    /\ LET operations == BuildOperationMap(spec_doc) IN
       returned' = IF Known(operations, operation_id)
                   THEN LET info == GetOperation(operations, operation_id) IN
                        [parameters |-> info.parameters,
                         request_body |-> IF info.request_body.present
                                          THEN info.request_body ELSE None]
                   ELSE Raise(OperationNotFound)
    /\ UNCHANGED <<max_retries, retry_delay, operation_id, raw_response, cpc, attempt,
                   last_error, made, slept, spec_doc, auth_params, auth_headers,
                   call_params, request>>
    /\ UNCHANGED wvars

\* The operations the sequence names.
FrameOperationIds == {"update-project", "submit-form", "no-such-operation"}

\* call_operation has ended; the caller goes on to its next call.
NextCall ==
    /\ cpc \in {"returned", "raised"}
    /\ cpc' = "idle"
    /\ operation_id' \in FrameOperationIds
    /\ attempt' = 0
    /\ last_error' = None
    /\ returned' = [none |-> TRUE]
    /\ made' = <<>>
    /\ slept' = <<>>
    /\ request' = NoRequest
    /\ UNCHANGED <<max_retries, retry_delay, raw_response, spec_doc, auth_params,
                   auth_headers, call_params>>
    /\ UNCHANGED wvars

InitFrame ==
    /\ max_retries \in 0..MaxRetriesBound
    /\ retry_delay = DefaultRetryDelay
    /\ raw_response = FALSE
    /\ spec_doc = Document(<<ProjectItem, FormsItem>>)
    /\ auth_params \in AuthMaps
    /\ auth_headers = <<<<"Authorization", "Bearer token">>>>
    /\ operation_id \in FrameOperationIds
    /\ call_params \in {EmptyParams, [k \in {"project_uuid"} |-> "w"]}
    /\ IdleCall
    /\ NoWrapper

NextFrame ==
    \/ GetOperationCall
    \/ ListOperationsCall
    \/ GetOperationSchemaCall
    \/ CallOperation
    \/ Attempt
    \/ LoopExit
    \/ NextCall

SpecFrame == InitFrame /\ [][NextFrame]_vars

UuidListed(list) ==
    /\ Truthy(params.uuid)
    /\ \E i \in 1..Len(list) : list[i].uuid = params.uuid

\* The listing without the resource that has the supplied uuid.
RECURSIVE OthersOf(_)
OthersOf(list) ==
    IF list = <<>> THEN <<>>
    ELSE (IF Head(list).uuid = params.uuid THEN <<>> ELSE <<Head(list)>>)
         \o OthersOf(Tail(list))

(***************************************************************************)
(* C25: when the caller supplies a uuid and the listing holds a resource   *)
(* with that uuid, the lookup of every resource wrapper returns that       *)
(* resource, whatever the list order and whatever other listed resources   *)
(* match the supplied name or ip; hence a state=absent invocation removes  *)
(* that resource and no other.                                             *)
(***************************************************************************)
C25_UuidLookupFindsThatResource ==
    wrapper \in ResourceWrappers =>
        /\ (wpc = "decide" /\ UuidListed(remote.resources)) =>
              existing.uuid = params.uuid
        /\ (/\ wpc = "done"
            /\ params.state = "absent"
            /\ ~check_mode
            /\ runs = <<>>
            /\ UuidListed(remote0.resources)) =>
              remote.resources = OthersOf(remote0.resources)

\* The project wrapper is asked to remove u2 and names a; the remote lists
\* u1 named a before u2 named b: u1 is removed and u2 is still there.
C25_Witness ==
    /\ wrapper = "project"
    /\ params.state = "absent"
    /\ params.uuid = "u2"
    /\ params.name = "a"
    /\ ~check_mode
    /\ Len(remote0.resources) = 2
    /\ remote0.resources[1].name = "a"
    /\ remote0.resources[2].name = "b"
    /\ wpc = "done"
    /\ existing.uuid = "u1"
    /\ Len(remote.resources) = 1
    /\ remote.resources[1].uuid = "u2"

\* What is left of C25 when no resource listed before the one with the
\* supplied uuid has the supplied name or ip.
C25_HoldsWithoutEarlierMatch ==
    (/\ wrapper \in ResourceWrappers
     /\ wpc = "decide"
     /\ UuidListed(remote.resources)
     /\ \A i, j \in 1..Len(remote.resources) :
           (j < i /\ remote.resources[i].uuid = params.uuid) =>
               /\ remote.resources[j].name # params.name
               /\ Truthy(params.ip) => remote.resources[j].ip # params.ip) =>
        existing.uuid = params.uuid

\* The attempts of the call whose request the remote applied: those answered
\* with a 2xx status and those whose response was lost.
AppliedAttempts ==
    { i \in 1..Len(made) :
        \/ made[i].kind = "response" /\ made[i].status_code \in 200..299
        \/ made[i] \in LostResponses }

(***************************************************************************)
(* C26: one call_operation on a non-idempotent operation (create-project)  *)
(* makes the remote apply the operation at most once, for every pattern of *)
(* transport failures, those in which the request reached the server and   *)
(* only the response was lost included.                                    *)
(***************************************************************************)
C26_AppliedAtMostOnce ==
    operation_id = "create-project" => Cardinality(AppliedAttempts) <= 1

\* create-project timed out after the server had applied it, was sent again
\* and answered 200: the project was created twice.
C26_Witness ==
    /\ operation_id = "create-project"
    /\ max_retries = DefaultMaxRetries
    /\ wpc = "done"
    /\ Len(made) = 2
    /\ made[1] \in LostResponses
    /\ made[2].kind = "response"
    /\ made[2].status_code = 200
    /\ result.outcome = "returned"
    /\ AppliedAttempts = {1, 2}

\* What is left of C26: the remote applies the operation at most once per
\* attempt, so at most max_retries times, and at most once when no response
\* is lost.
C26_AppliedAtMostOncePerAttempt ==
    operation_id = "create-project" =>
        /\ Cardinality(AppliedAttempts) <= max_retries
        /\ (\A i \in 1..Len(made) : made[i] \notin LostResponses) =>
              Cardinality(AppliedAttempts) <= 1

(***************************************************************************)
(* C27: for every configured max_retries, 0 included, a call_operation on  *)
(* a known operation either raises or returns a value derived from the     *)
(* response of a transport attempt of that call; it never returns without  *)
(* having made an attempt.                                                 *)
(***************************************************************************)
C27_NoReturnWithoutAttempt ==
    (cpc = "returned" /\ operation_id \in DOMAIN BuildOperationMap(spec_doc)) =>
        /\ made # <<>>
        /\ made[Len(made)].kind = "response"
        /\ returned \in {ResponseDict(made[Len(made)]),
                          [raw |-> made[Len(made)].body],
                          [uuid |-> "u1"], [message |-> "Server Error"]}

\* With max_retries = 0 list-servers returned None and nothing was sent.
C27_Witness ==
    /\ max_retries = 0
    /\ operation_id = "list-servers"
    /\ cpc = "returned"
    /\ made = <<>>
    /\ slept = <<>>
    /\ returned = [none |-> TRUE]

\* What is left of C27: it holds for every max_retries of at least 1.
C27_HoldsForPositiveRetries ==
    (/\ cpc = "returned"
     /\ operation_id \in DOMAIN BuildOperationMap(spec_doc)
     /\ max_retries >= 1) =>
        /\ made # <<>>
        /\ made[Len(made)].kind = "response"
        /\ returned # [none |-> TRUE]

\* The lookup of the invocation was answered and found no resource, and the
\* invocation has ended.
EndedOnMissing ==
    /\ wrapper \in ResourceWrappers
    /\ wpc \in {"done", "failed"}
    /\ calls # <<>>
    /\ calls[1].outcome = "ok"
    /\ existing = NoResource

VerbState ==
    params.state \in {"started", "stopped", "restarted", "deployed", "validated"}

\* state=present without a field the wrapper requires for a creation.
LacksCreationField ==
    /\ params.state = "present"
    /\ CASE wrapper \in {"application", "database"} ->
               \/ params.type \in {None, ""}
               \/ params.project_uuid \in {None, ""}
               \/ params.server_uuid \in {None, ""}
         [] wrapper = "service" ->
               \/ params.project_uuid \in {None, ""}
               \/ params.server_uuid \in {None, ""}
               \/ params.name \in {None, ""}
         [] wrapper = "private_key" -> params.private_key \in {None, ""}
         [] OTHER -> FALSE

(***************************************************************************)
(* C28: when a wrapper's precondition fails (a verb state whose lookup     *)
(* finds no resource, or state=present on a missing application, database, *)
(* service or private key without its required creation fields), the       *)
(* wrapper ends with a failure result and issues no mutating call, in      *)
(* normal and in dry-run mode alike.                                       *)
(***************************************************************************)
C28_FailedPreconditionMakesNoCall ==
    (EndedOnMissing /\ (VerbState \/ LacksCreationField)) =>
        /\ wpc = "failed"
        /\ result.failed
        /\ ~result.changed
        /\ Len(calls) = 1
        /\ calls[1].kind = "list"
        /\ remote = remote0

\* A dry run of the database wrapper with state=restarted found no database
\* and failed after its one listing call.
C28_Witness ==
    /\ wrapper = "database"
    /\ params.state = "restarted"
    /\ check_mode
    /\ EndedOnMissing
    /\ wpc = "failed"
    /\ result.failed
    /\ Len(calls) = 1

\* A normal-mode project invocation with state=present and a non-empty
\* environments list has ended, every call of it answered.
EnvironmentsManaged ==
    /\ wrapper = "project"
    /\ params.state = "present"
    /\ params.environments # <<>>
    /\ ~check_mode
    /\ wpc = "done"
    /\ \A i \in 1..Len(calls) : calls[i].outcome = "ok"

\* The number of calls of one kind.
CallsOf(kind) == Cardinality({ i \in 1..Len(calls) : calls[i].kind = kind })

\* The entries of the environments list that ask for state and whose name
\* is (listed = TRUE) or is not (listed = FALSE) in the project's list.
EntriesFor(state, listed) ==
    { i \in 1..Len(params.environments) :
        /\ params.environments[i].state = state
        /\ InEnvironments(current_envs, params.environments[i].name) = listed }

\* The distinct names of a set of entries.
NamesOf(entries) == { params.environments[i].name : i \in entries }

(***************************************************************************)
(* C29: in a normal-mode project invocation with state=present and an      *)
(* environments list whose calls all succeed, exactly one create call is   *)
(* issued for each distinct listed name with state present that was        *)
(* missing from the project's environment list, exactly one delete call    *)
(* for each distinct listed name with state absent that was in it, and no  *)
(* call for any other environment; changed is true whenever such a call is *)
(* issued.                                                                 *)
(***************************************************************************)
C29_OneCallPerDistinctName ==
    EnvironmentsManaged =>
        /\ CallsOf("env_create") = Cardinality(NamesOf(EntriesFor("present", FALSE)))
        /\ CallsOf("env_delete") = Cardinality(NamesOf(EntriesFor("absent", TRUE)))
        /\ (CallsOf("env_create") + CallsOf("env_delete") > 0) => result.changed

\* The list names e2 twice with state present and the project has only e1:
\* two create calls are issued for e2.
C29_Witness ==
    /\ EnvironmentsManaged
    /\ runs = <<>>
    /\ Len(params.environments) = 2
    /\ params.environments[1] = [name |-> "e2", state |-> "present"]
    /\ params.environments[2] = [name |-> "e2", state |-> "present"]
    /\ current_envs = <<"e1">>
    /\ CallsOf("env_create") = 2
    /\ remote.environments = <<"e1", "e2", "e2">>

\* What is left of C29: one call per listed entry, with the project's list
\* as it was fetched before the loop.
C29_OneCallPerEntry ==
    EnvironmentsManaged =>
        /\ CallsOf("env_create") = Cardinality(EntriesFor("present", FALSE))
        /\ CallsOf("env_delete") = Cardinality(EntriesFor("absent", TRUE))
        /\ (CallsOf("env_create") + CallsOf("env_delete") > 0) => result.changed

\* The place of a method in the order in which the index is built.
MethodRank(m) ==
    CASE m = "get" -> 1 [] m = "post" -> 2 [] m = "put" -> 3 [] m = "patch" -> 4
      [] m = "delete" -> 5 [] m = "options" -> 6 [] m = "head" -> 7

\* The path/method entries of the document that declare the called
\* identifier, each with its place in the document.
DeclarationsOfCalled ==
    { <<i, m>> \in (1..Len(spec_doc.paths)) \X SevenMethods :
        /\ m \in DOMAIN spec_doc.paths[i].ops
        /\ spec_doc.paths[i].ops[m].operationId = operation_id }

\* d is visited after c.
VisitedAfter(d, c) ==
    d[1] > c[1] \/ (d[1] = c[1] /\ MethodRank(d[2]) > MethodRank(c[2]))

(***************************************************************************)
(* C30: when two path/method entries of the document declare the same      *)
(* operation identifier, the index holds one entry for it, the one met     *)
(* last when paths are visited in document order and methods in the order  *)
(* get, post, put, patch, delete, options, head; every request for the     *)
(* identifier is built from that entry's path, method, parameters and body *)
(* descriptor.                                                             *)
(***************************************************************************)
C30_LastDeclarationWins ==
    (cpc = "loop" /\ Cardinality(DeclarationsOfCalled) >= 2) =>
        \A c \in DeclarationsOfCalled :
            (\A d \in DeclarationsOfCalled : ~VisitedAfter(d, c)) =>
                LET item == spec_doc.paths[c[1]]
                    operation == item.ops[c[2]]
                IN  /\ CalledInfo.path = item.path
                    /\ CalledInfo.parameters = operation.parameters
                    /\ CalledInfo.request_body = operation.requestBody
                    /\ request.method = Upper(c[2])
                    /\ Len(request.path) = Len(item.path)
                    /\ \A k \in 1..Len(item.path) :
                          ~item.path[k].var => request.path[k] = item.path[k]
                    /\ (request.body # None) = operation.requestBody.present

\* submit-form is declared under /forms (post) and, later in the document,
\* under /items/{project_uuid} (patch): the request is the PATCH.
C30_Witness ==
    /\ cpc = "loop"
    /\ operation_id = "submit-form"
    /\ spec_doc.paths = <<FormsItem, ItemsItem>>
    /\ DeclarationsOfCalled = {<<1, "post">>, <<2, "patch">>}
    /\ call_params = [k \in {"project_uuid"} |-> "w"]
    /\ auth_params = <<>>
    /\ request.method = "PATCH"
    /\ request.url = "http://coolify/api/v1/items/w?project_uuid=w"
    /\ request.body = None
====
